---- MODULE Spec2Model ----
(***************************************************************************)
(* A model of gkalpak/cli-utils: the placeholder expander                  *)
(* (CommandUtils.expandCmd / run) and the pipelined process spawner        *)
(* (CommandUtils.spawnAsPromised), with the helpers they call              *)
(* (ProcessUtils.doOnExit, InternalUtils.finallyAsPromised, ...).          *)
(*                                                                         *)
(* Strings are sequences of one-character strings, so that splitting,      *)
(* trimming and replacing are computed the way the code computes them.     *)
(***************************************************************************)
EXTENDS Integers, Sequences, FiniteSets, TLC

(***************************************************************************)
(* Generic string helpers (JavaScript String / Array built-ins).           *)
(***************************************************************************)

\* The characters JavaScript's \s matches, among those the model uses.
WsChars == {" ", "\t", "\n"}

IsWs(c) == c \in WsChars

Digits == {"0", "1", "2", "3", "4", "5", "6", "7", "8", "9"}

DigitVal(c) ==
  CASE c = "0" -> 0 [] c = "1" -> 1 [] c = "2" -> 2 [] c = "3" -> 3
    [] c = "4" -> 4 [] c = "5" -> 5 [] c = "6" -> 6 [] c = "7" -> 7
    [] c = "8" -> 8 [] c = "9" -> 9

\* Array.prototype.slice(from) / String.prototype.slice(from), 1-based here.
Drop(s, n) == IF n >= Len(s) THEN << >> ELSE SubSeq(s, n + 1, Len(s))

Take(s, n) == IF n <= 0 THEN << >> ELSE IF n >= Len(s) THEN s ELSE SubSeq(s, 1, n)

\* Does `pat` occur in `s` starting at (1-based) index i?
MatchesAt(s, pat, i) ==
  /\ i >= 1
  /\ i + Len(pat) - 1 <= Len(s)
  /\ \A k \in 1..Len(pat) : s[i + k - 1] = pat[k]

\* String.prototype.indexOf(pat): 1-based index of the first occurrence, 0 if none.
IndexOf(s, pat) ==
  LET hits == {i \in 1..(Len(s) - Len(pat) + 1) : MatchesAt(s, pat, i)}
  IN  IF hits = {} THEN 0 ELSE CHOOSE i \in hits : \A j \in hits : i <= j

EndsWith(s, pat) == Len(pat) <= Len(s) /\ MatchesAt(s, pat, Len(s) - Len(pat) + 1)

\* String.prototype.trim().
RECURSIVE TrimStart(_)
TrimStart(s) == IF s # << >> /\ IsWs(s[1]) THEN TrimStart(Drop(s, 1)) ELSE s

RECURSIVE TrimEnd(_)
TrimEnd(s) == IF s # << >> /\ IsWs(s[Len(s)]) THEN TrimEnd(Take(s, Len(s) - 1)) ELSE s

Trim(s) == TrimEnd(TrimStart(s))

\* String.prototype.split(sep) for a one-character separator.
RECURSIVE SplitChar(_, _)
SplitChar(s, sep) ==
  LET i == IndexOf(s, << sep >>)
  IN  IF i = 0 THEN << s >>
      ELSE << Take(s, i - 1) >> \o SplitChar(Drop(s, i), sep)

\* Array.prototype.join(sep) for an array of strings.
RECURSIVE Join(_, _)
Join(parts, sep) ==
  IF parts = << >> THEN << >>
  ELSE IF Len(parts) = 1 THEN parts[1]
  ELSE parts[1] \o sep \o Join(Drop(parts, 1), sep)

\* Array.prototype.filter(x => x) on an array of strings.
RECURSIVE FilterNonEmpty(_)
FilterNonEmpty(parts) ==
  IF parts = << >> THEN << >>
  ELSE (IF parts[1] = << >> THEN << >> ELSE << parts[1] >>) \o FilterNonEmpty(Drop(parts, 1))

(***************************************************************************)
(* Command parsing: CommandUtils.parseRawCmd and its helpers.               *)
(***************************************************************************)

\* If the regular expression \s+\|\s+ matches at index i of s, the index of the
\* last character of the (greedy) match; 0 if it does not match there.
RECURSIVE WsRunEnd(_, _)
WsRunEnd(s, i) ==
  IF i + 1 <= Len(s) /\ IsWs(s[i + 1]) THEN WsRunEnd(s, i + 1) ELSE i

PipeMatchEnd(s, i) ==
  IF i > Len(s) \/ ~IsWs(s[i]) THEN 0
  ELSE LET j == WsRunEnd(s, i)
       IN  IF j + 2 <= Len(s) /\ s[j + 1] = "|" /\ IsWs(s[j + 2])
           THEN WsRunEnd(s, j + 2)
           ELSE 0

\* rawCmd.split(/\s+\|\s+/): `start` is where the current piece begins, i the scan position.
RECURSIVE SplitPipesFrom(_, _, _)
SplitPipesFrom(s, start, i) ==
  IF i > Len(s) THEN << Drop(s, start - 1) >>
  ELSE LET m == PipeMatchEnd(s, i)
       IN  IF m > 0
           THEN << SubSeq(s, start, i - 1) >> \o SplitPipesFrom(s, m + 1, m + 1)
           ELSE SplitPipesFrom(s, start, i + 1)

SplitPipes(s) == SplitPipesFrom(s, 1, 1)

\* The first reduce() of parseSingleCmd over cmd.split('"'); idx is the 0-based
\* index of segs[1] in the original array.
RECURSIVE QuoteReduce(_, _, _)
QuoteReduce(segs, idx, arr) ==
  IF segs = << >> THEN arr
  ELSE LET str       == segs[1]
           newTokens == IF idx % 2 = 1
                        THEN << << "\"" >> \o str \o << "\"" >> >>
                        ELSE SplitChar(str, " ")
           lastToken == IF arr = << >> THEN << >> ELSE arr[Len(arr)]
           merged    == IF lastToken # << >>
                        THEN [arr EXCEPT ![Len(arr)] = lastToken \o newTokens[1]]
                        ELSE arr
           rest      == IF lastToken # << >> THEN Drop(newTokens, 1) ELSE newTokens
       IN  QuoteReduce(Drop(segs, 1), idx + 1, merged \o rest)

\* The second reduce() of parseSingleCmd: split a leading '(' off a token.
RECURSIVE ParenReduce(_)
ParenReduce(tokens) ==
  IF tokens = << >> THEN << >>
  ELSE (IF tokens[1][1] = "("
        THEN << << "(" >>, Drop(tokens[1], 1) >>
        ELSE << tokens[1] >>) \o ParenReduce(Drop(tokens, 1))

\* insertAt(items, newItem, idx), idx 0-based as in the code.
InsertAt(items, newItem, idx) ==
  LET at == IF idx + 1 <= Len(items) /\ items[idx + 1] = << "(" >> THEN idx + 1 ELSE idx
      k  == IF at > Len(items) THEN Len(items) ELSE at
  IN  Take(items, k) \o << newItem >> \o Drop(items, k)

\* insertAfter(items, newItem, afterItem): the for loop, from 0-based index i.
RECURSIVE InsertAfterFrom(_, _, _, _)
InsertAfterFrom(items, newItem, afterItem, i) ==
  IF i >= Len(items) THEN items
  ELSE IF items[i + 1] = afterItem
       THEN InsertAfterFrom(InsertAt(items, newItem, i + 1), newItem, afterItem, i + 2)
       ELSE InsertAfterFrom(items, newItem, afterItem, i + 1)

InsertAfter(items, newItem, afterItem) == InsertAfterFrom(items, newItem, afterItem, 0)

EchoTok == << "e", "c", "h", "o" >>

\* (variant) echo put in front only
TransformForDryrun_FirstOnly(tokens) == InsertAt(tokens, EchoTok, 0)

TransformForDryrun(tokens) ==
  InsertAfter(InsertAfter(InsertAt(tokens, EchoTok, 0), EchoTok, << "&", "&" >>),
              EchoTok, << "|", "|" >>)

ParseSingleCmd(cmd, dryrun) ==
  LET parsed == ParenReduce(FilterNonEmpty(QuoteReduce(SplitChar(cmd, "\""), 0, << >>)))
      tokens == IF dryrun THEN TransformForDryrun(parsed) ELSE parsed
  IN  [executable |-> IF tokens = << >> THEN << >> ELSE tokens[1],
       args       |-> Drop(tokens, 1)]

\* JSON.stringify(rawCmd).replace(/'/g, '\\\''), character by character.
RECURSIVE JsonEscape(_)
JsonEscape(s) ==
  IF s = << >> THEN << >>
  ELSE (CASE s[1] = "\"" -> << "\\", "\"" >>
          [] s[1] = "\\" -> << "\\", "\\" >>
          [] s[1] = "\n" -> << "\\", "n" >>
          [] s[1] = "\t" -> << "\\", "t" >>
          [] s[1] = "'"  -> << "\\", "'" >>
          [] OTHER       -> << s[1] >>) \o JsonEscape(Drop(s, 1))

NodePrintCmd(rawCmd) ==
  << "n", "o", "d", "e", " ", "-", "-", "p", "r", "i", "n", "t", " ", "'", "\"" >>
    \o JsonEscape(rawCmd) \o << "\"", "'" >>

\* (variant) a switch whose last case is the default
KnownSapVersion_Any(sapVersion) == TRUE

KnownSapVersion(sapVersion) == sapVersion \in {1, 2}

\* `Unknown 'sapVersion' (${sapVersion}).`
UnknownSapVersion(sapVersion) == "Unknown 'sapVersion' (" \o ToString(sapVersion) \o ")."

RECURSIVE MapParseSingleCmd(_, _)
MapParseSingleCmd(cmds, dryrun) ==
  IF cmds = << >> THEN << >>
  ELSE << ParseSingleCmd(cmds[1], dryrun) >> \o MapParseSingleCmd(Drop(cmds, 1), dryrun)

\* (variant) the whole rawCmd as one stage, whatever the sapVersion
ParseRawCmd_NoSplit(rawCmd, sapVersion, dryrun) ==
  IF sapVersion = 1
  THEN << ParseSingleCmd(rawCmd, dryrun) >>
  ELSE << [executable |-> IF dryrun THEN NodePrintCmd(rawCmd) ELSE rawCmd,
           args       |-> << >>] >>

\* parseRawCmd for a known sapVersion (an unknown one throws: see SpawnAsPromised).
ParseRawCmd(rawCmd, sapVersion, dryrun) ==
  IF sapVersion = 1
  THEN MapParseSingleCmd(SplitPipes(rawCmd), dryrun)
  ELSE << [executable |-> IF dryrun THEN NodePrintCmd(rawCmd) ELSE rawCmd,
           args       |-> << >>] >>

(***************************************************************************)
(* Values.                                                                 *)
(***************************************************************************)

\* IRunConfig.returnOutput is boolean | number: `num` tells which, `on` is the
\* boolean (or, for a number, its truthiness), n the number.
RoFalse == [num |-> FALSE, on |-> FALSE, n |-> 0]

RoTrue == [num |-> FALSE, on |-> TRUE, n |-> 0]

RoNum(k) == [num |-> TRUE, on |-> (k # 0), n |-> k]

\* Infinity, as far as slice(-Infinity) is concerned: more than any line count.
Infinity == 999

Truthy(returnOutput) == returnOutput.on

\* The values a promise settles with: a captured string, an exit code, a signal
\* name or an error.
StrVal(text) == [kind |-> "str", code |-> 0, name |-> "", text |-> text]

CodeVal(code) == [kind |-> "code", code |-> code, name |-> "", text |-> << >>]

SignalVal(name) == [kind |-> "signal", code |-> 0, name |-> name, text |-> << >>]

ErrVal(name) == [kind |-> "error", code |-> 0, name |-> name, text |-> << >>]

Pending == [state |-> "pending", value |-> StrVal(<< >>)]

Resolved(v) == [state |-> "resolved", value |-> v]

Rejected(v) == [state |-> "rejected", value |-> v]

(***************************************************************************)
(* Placeholder grammar: the regular expression `re` of expandCmd: at most  *)
(* one whitespace character (group 1), an optional backslash, a dollar     *)
(* sign, and then a star, or digits 1-9 and a star, or digits, or the same *)
(* three in braces with an optional colon and fallback text (group 8).     *)
(***************************************************************************)

NonZeroDigits == Digits \ { "0" }

\* The index of the last character of the longest run of characters of `set`
\* that starts at index j of s (j - 1 if there is none).
RECURSIVE RunEnd(_, _, _)
RunEnd(s, j, set) == IF j <= Len(s) /\ s[j] \in set THEN RunEnd(s, j + 1, set) ELSE j - 1

\* +digits: the number a string of decimal digits denotes.
RECURSIVE DigitsToNat(_)
DigitsToNat(ds) ==
  IF ds = << >> THEN 0 ELSE 10 * DigitsToNat(Take(ds, Len(ds) - 1)) + DigitVal(ds[Len(ds)])

NoMatch ==
  [ok |-> FALSE, last |-> 0, g1 |-> << >>, kind |-> "", digits |-> << >>, g8 |-> << >>]

\* (variant) \d+ and star in the place of [1-9]+ and star
MatchKind_AnyDigitsFrom(s, k) ==
  IF k <= Len(s) /\ s[k] = "*"
  THEN [ok |-> TRUE, kind |-> "all", digits |-> << >>, next |-> k + 1]
  ELSE LET ed == RunEnd(s, k, Digits)
       IN  IF ed >= k /\ ed + 1 <= Len(s) /\ s[ed + 1] = "*"
           THEN [ok |-> TRUE, kind |-> "from", digits |-> SubSeq(s, k, ed), next |-> ed + 2]
           ELSE IF ed >= k
           THEN [ok |-> TRUE, kind |-> "at", digits |-> SubSeq(s, k, ed), next |-> ed + 1]
           ELSE [ok |-> FALSE, kind |-> "", digits |-> << >>, next |-> k]

\* The three alternatives (star, [1-9]+ and star, \d+) tried in this order at index k:
\* `next` is the index after what they consumed.
MatchKind(s, k) ==
  IF k <= Len(s) /\ s[k] = "*"
  THEN [ok |-> TRUE, kind |-> "all", digits |-> << >>, next |-> k + 1]
  ELSE LET e19 == RunEnd(s, k, NonZeroDigits)
           ed  == RunEnd(s, k, Digits)
       IN  IF e19 >= k /\ e19 + 1 <= Len(s) /\ s[e19 + 1] = "*"
           THEN [ok |-> TRUE, kind |-> "from", digits |-> SubSeq(s, k, e19), next |-> e19 + 2]
           ELSE IF ed >= k
           THEN [ok |-> TRUE, kind |-> "at", digits |-> SubSeq(s, k, ed), next |-> ed + 1]
           ELSE [ok |-> FALSE, kind |-> "", digits |-> << >>, next |-> k]

\* The part of `re` after \$ at index k; g1 is what (\s{0,1}) captured.
MatchAfterDollar(s, k, g1) ==
  IF k <= Len(s) /\ s[k] = "{"
  THEN LET m == MatchKind(s, k + 1)
           p == m.next
           close == IF p <= Len(s) THEN IndexOf(Drop(s, p), << "}" >>) ELSE 0
       IN  IF ~m.ok \/ p > Len(s) THEN NoMatch
           ELSE IF s[p] = "}"
           THEN [ok |-> TRUE, last |-> p, g1 |-> g1, kind |-> m.kind, digits |-> m.digits,
                 g8 |-> << >>]
           ELSE IF s[p] = ":" /\ close > 0
           THEN [ok |-> TRUE, last |-> p + close, g1 |-> g1, kind |-> m.kind,
                 digits |-> m.digits, g8 |-> SubSeq(s, p + 1, p + close - 1)]
           ELSE NoMatch
  ELSE LET m == MatchKind(s, k)
       IN  IF m.ok
           THEN [ok |-> TRUE, last |-> m.next - 1, g1 |-> g1, kind |-> m.kind,
                 digits |-> m.digits, g8 |-> << >>]
           ELSE NoMatch

\* (variant) \$ without the optional backslash before it
MatchFromBackslash_NoEscape(s, j, g1) ==
  IF j <= Len(s) /\ s[j] = "$" THEN MatchAfterDollar(s, j + 1, g1) ELSE NoMatch

\* \\?\$ and the rest, at index j.
MatchFromBackslash(s, j, g1) ==
  LET k == IF j <= Len(s) /\ s[j] = "\\" THEN j + 1 ELSE j
  IN  IF k <= Len(s) /\ s[k] = "$" THEN MatchAfterDollar(s, k + 1, g1) ELSE NoMatch

\* A match of `re` that starts at index i (the engine tries (\s{0,1}) with one
\* whitespace character first, then with none).
MatchAt(s, i) ==
  LET withWs == IF IsWs(s[i]) THEN MatchFromBackslash(s, i + 1, << s[i] >>) ELSE NoMatch
  IN  IF withWs.ok THEN withWs ELSE MatchFromBackslash(s, i, << >>)

\* Array.prototype.slice(start, end) with 0-based, possibly negative, indices.
JsSlice(arr, start, end) ==
  LET len  == Len(arr)
      from == IF start < 0 THEN (IF len + start < 0 THEN 0 ELSE len + start)
              ELSE (IF start > len THEN len ELSE start)
      to   == IF end < 0 THEN (IF len + end < 0 THEN 0 ELSE len + end)
              ELSE (IF end > len THEN len ELSE end)
  IN  IF from >= to THEN << >> ELSE SubSeq(arr, from + 1, to)

\* The value based on the supplied arguments (startIdx, endIdx, slice, join).
ArgsValue(m, runtimeArgs) ==
  LET startIdx == IF m.kind = "all" THEN 0 ELSE DigitsToNat(m.digits) - 1
      endIdx   == IF m.kind \in { "all", "from" } THEN Len(runtimeArgs)
                  ELSE DigitsToNat(m.digits)
  IN  Join(JsSlice(runtimeArgs, startIdx, endIdx), << " " >>)

\* (variant) the captured whitespace kept in front of an empty value too
TransformValue_KeepWs(g1, val) == g1 \o val

\* transformValue of a match whose (\s{0,1}) captured g1.
TransformValue(g1, val) == IF val = << >> THEN << >> ELSE g1 \o val

\* /^::(.+)$/ on the fallback text: `.` does not match a line terminator.
IsCommandFallback(g8) ==
  /\ Len(g8) >= 3
  /\ g8[1] = ":" /\ g8[2] = ":"
  /\ \A k \in 3..Len(g8) : g8[k] # "\n"

ReturnOutputFlag == Join(<< << " ", "-", "-", "g", "k", "c", "u", "-" >>,
                            << "r", "e", "t", "u", "r", "n" >>,
                            << "O", "u", "t", "p", "u", "t", "=" >> >>, << >>)

\* Where / --gkcu-returnOutput=(\d+)$/ matches in str: the index of the first
\* digit, 0 if it does not match.
RECURSIVE TrailingDigitsStart(_, _)
TrailingDigitsStart(str, j) ==
  IF j >= 1 /\ str[j] \in Digits THEN TrailingDigitsStart(str, j - 1) ELSE j + 1

ReturnOutputSuffixAt(str) ==
  LET d == TrailingDigitsStart(str, Len(str))
  IN  IF d <= Len(str) /\ EndsWith(Take(str, d - 1), ReturnOutputFlag) THEN d ELSE 0

\* subCmd and returnOutput of a command fallback (match[1] is g8 without "::").
SubCmdOf(g8) ==
  LET str == Drop(g8, 2)
      d   == ReturnOutputSuffixAt(str)
  IN  IF d = 0 THEN str ELSE Take(str, d - 1 - Len(ReturnOutputFlag))

ReturnOutputOf(g8) ==
  LET str == Drop(g8, 2)
      d   == ReturnOutputSuffixAt(str)
  IN  IF d = 0 THEN RoTrue ELSE RoNum(DigitsToNat(Drop(str, d - 1)))

\* `${Math.random()}`: the k-th placeholder of a call, a text that occurs
\* nowhere else.
PlaceholderToks == << "#1", "#2", "#3", "#4", "#5" >>

PlaceholderTok(k) == PlaceholderToks[k]

Placeholders == { PlaceholderToks[k] : k \in DOMAIN PlaceholderToks }

\* One call of the callback of cmd.replace(re, callback) for the match m, or
\* one character copied when re does not match at index i: `next` is where the
\* scan goes on, `out` the text produced so far, `infos` the {placeholder,
\* returnOutput, transformValue} records pushed so far, each with the subCmd it
\* was pushed for.
ReplaceStep(s, i, m, runtimeArgs, out, infos) ==
  LET value == ArgsValue(m, runtimeArgs)
  IN  IF ~m.ok THEN [next |-> i + 1, out |-> out \o << s[i] >>, infos |-> infos]
      ELSE IF value = << >> /\ m.g8 # << >>
      THEN IF ~IsCommandFallback(m.g8)
           THEN [next |-> m.last + 1, out |-> out \o TransformValue(m.g1, m.g8),
                 infos |-> infos]
           ELSE LET placeholder == PlaceholderTok(Len(infos) + 1)
                    info == [subCmd |-> SubCmdOf(m.g8), placeholder |-> placeholder,
                             returnOutput |-> ReturnOutputOf(m.g8), g1 |-> m.g1]
                IN  [next |-> m.last + 1, out |-> out \o << placeholder >>,
                     infos |-> Append(infos, info)]
      ELSE [next |-> m.last + 1, out |-> out \o TransformValue(m.g1, value),
            infos |-> infos]

\* cmd.replace(re, callback) from index i on.
RECURSIVE ReplaceFrom(_, _, _, _, _)
ReplaceFrom(s, i, runtimeArgs, out, infos) ==
  IF i > Len(s) THEN [out |-> out, infos |-> infos]
  ELSE CHOOSE r \in { ReplaceFrom(s, st.next, runtimeArgs, st.out, st.infos) :
                        st \in { ReplaceStep(s, i, m, runtimeArgs, out, infos) :
                                   m \in { MatchAt(s, i) } } } : TRUE

ReplaceAll(cmd, runtimeArgs) == ReplaceFrom(cmd, 1, runtimeArgs, << >>, << >>)

\* (variant) a map that keeps one entry per push, equal keys included
RECURSIVE MapKeys_NoDedupe(_, _)
MapKeys_NoDedupe(infos, keys) ==
  IF infos = << >> THEN keys
  ELSE MapKeys_NoDedupe(Drop(infos, 1), Append(keys, infos[1].subCmd))

\* The keys of the subCommands map, in insertion order.
RECURSIVE MapKeys(_, _)
MapKeys(infos, keys) ==
  IF infos = << >> THEN keys
  ELSE MapKeys(Drop(infos, 1),
               IF \E k \in 1..Len(keys) : keys[k] = infos[1].subCmd
               THEN keys
               ELSE Append(keys, infos[1].subCmd))

\* subCommands.get(subCmd): the infos pushed for subCmd, in order.
RECURSIVE InfoList(_, _)
InfoList(infos, subCmd) ==
  IF infos = << >> THEN << >>
  ELSE (IF infos[1].subCmd = subCmd THEN << infos[1] >> ELSE << >>)
         \o InfoList(Drop(infos, 1), subCmd)

\* getLastLines(input, lineCount): input.split('\n').slice(-lineCount).join('\n').trim()
GetLastLines(input, lineCount) ==
  LET lines == SplitChar(input, "\n")
      kept  == IF lineCount = 0 \/ lineCount >= Len(lines)
               THEN lines
               ELSE Drop(lines, Len(lines) - lineCount)
  IN  Trim(Join(kept, << "\n" >>))

(***************************************************************************)
(* Output clean-up and substitution (cleanUpOutput, String.replace).       *)
(***************************************************************************)

LowerUpper(c) ==
  CASE c = "m" -> { "m", "M" } [] c = "h" -> { "h", "H" } [] OTHER -> { c }

\* If the escape-sequence expression `name` of internalUtils.escapeSeqRes
\* matches at index i of s, the index of its last character; 0 otherwise.
\* "ESC" stands for the character \u001b.
EscapeSeqEnd(name, s, i) ==
  IF ~(i + 1 <= Len(s) /\ s[i] = "ESC" /\ s[i + 1] = "[") THEN 0
  ELSE CASE name = "resetBold" ->
              IF i + 3 <= Len(s) /\ s[i + 2] = "0" /\ s[i + 3] \in LowerUpper("m")
              THEN i + 3 ELSE 0
         [] name = "showCursor" ->
              IF i + 5 <= Len(s) /\ s[i + 2] = "?" /\ s[i + 3] = "2" /\ s[i + 4] = "5"
                 /\ s[i + 5] \in LowerUpper("h")
              THEN i + 5 ELSE 0
         [] name = "moveCursor" ->
              LET e == RunEnd(s, i + 2, Digits)
              IN  IF e >= i + 2 /\ e + 1 <= Len(s)
                     /\ s[e + 1] \in { "a", "b", "c", "d", "A", "B", "C", "D" }
                  THEN e + 1 ELSE 0

\* str.replace(escapeSeqRes[name], ''): one left-to-right pass.
RECURSIVE StripEscapeSeq(_, _, _)
StripEscapeSeq(name, s, i) ==
  IF i > Len(s) THEN << >>
  ELSE LET e == EscapeSeqEnd(name, s, i)
       IN  IF e > 0 THEN StripEscapeSeq(name, s, e + 1)
           ELSE << s[i] >> \o StripEscapeSeq(name, s, i + 1)

\* internalUtils.stripOutputStyleResetSequences
StripOutputStyleResetSequences(str) ==
  StripEscapeSeq("showCursor", StripEscapeSeq("resetBold", str, 1), 1)

CleanUpOutput(str) ==
  Trim(StripEscapeSeq("moveCursor", StripOutputStyleResetSequences(str), 1))

\* value.replace(/\s/g, '_')
RECURSIVE WsToUnderscore(_)
WsToUnderscore(str) ==
  IF str = << >> THEN << >>
  ELSE << IF IsWs(str[1]) THEN "_" ELSE str[1] >> \o WsToUnderscore(Drop(str, 1))

\* The replacement text String.prototype.replace(pattern, replacement) builds
\* from a replacement string: $$, $&, $` and $' are special (a string pattern
\* has no capture groups, so $1 is not).  "GRAVE" is the character U+0060.
RECURSIVE GetSubstitution(_, _, _, _)
GetSubstitution(repl, matched, before, after) ==
  IF repl = << >> THEN << >>
  ELSE IF repl[1] = "$" /\ Len(repl) >= 2 /\ repl[2] \in { "$", "&", "GRAVE", "'" }
  THEN (CASE repl[2] = "$" -> << "$" >>
          [] repl[2] = "&" -> matched
          [] repl[2] = "GRAVE" -> before
          [] repl[2] = "'" -> after)
         \o GetSubstitution(Drop(repl, 2), matched, before, after)
  ELSE << repl[1] >> \o GetSubstitution(Drop(repl, 1), matched, before, after)

\* expandedCmd.replace(placeholder, repl): the first occurrence only.
ReplaceFirst(str, placeholder, repl) ==
  LET i == IndexOf(str, << placeholder >>)
  IN  IF i = 0 THEN str
      ELSE Take(str, i - 1)
             \o GetSubstitution(repl, << placeholder >>, Take(str, i - 1), Drop(str, i))
             \o Drop(str, i)

\* The `value` of a placeholder: the part of the output it cares about.
InfoValue(info, result) ==
  IF info.returnOutput.num THEN GetLastLines(result, info.returnOutput.n) ELSE result

\* The `repl` of a placeholder.
InfoRepl(info, result, dryrun) ==
  LET value == InfoValue(info, result)
  IN  TransformValue(info.g1,
                     IF dryrun
                     THEN << "{", "{" >> \o WsToUnderscore(value) \o << "}", "}" >>
                     ELSE value)

\* The replPromises callbacks of one sub-command, in the order of infoList.
RECURSIVE ReplaceInfos(_, _, _, _)
ReplaceInfos(str, infoList, result, dryrun) ==
  IF infoList = << >> THEN str
  ELSE ReplaceInfos(ReplaceFirst(str, infoList[1].placeholder,
                                 InfoRepl(infoList[1], result, dryrun)),
                    Drop(infoList, 1), result, dryrun)

(***************************************************************************)
(* State of one spawnAsPromised invocation and of the host process.        *)
(***************************************************************************)
VARIABLES
  sapCall,     \* the arguments of the invocation: [called, rawCmd, config]
  spawned,     \* the child processes, in spawn order
  pipes,       \* the pipe() calls made: a set of <<source, destination>>
  promise,     \* the promise created in spawnAsPromised (resolve / reject)
  retPromise,  \* the promise finallyAsPromised returns to the caller
  microtasks,  \* the promise reactions waiting to run, in order
  data,        \* the `data` accumulator of the promise executor
  stdoutEnded, \* the last stage's stdout has ended: no further data events
  chunkCount,  \* data events delivered so far
  host,        \* the host process: its listeners and exit state
  rl,          \* the readline interface of suppressTerminateBatchJobConfirmation
  calls,       \* how often each function has been called
  termOut      \* what has been written to process.stdout, in order

VARIABLES
  runCall,       \* the arguments of the run() invocation: [called, cmd, runtimeArgs, config]
  config,        \* the caller's config object, as it is now
  expandedCmd,   \* the `expandedCmd` of expandCmd
  subCommands,   \* the subCommands map, in insertion order, with each run's state
  runLog,        \* the this.run(subCmd, ...) calls made by expandCmd, in order
  spawnLog,      \* the spawnAsPromised calls made by run(), in order
  debugLog,      \* the debugMessage calls made by run(), in order
  expandPromise, \* the promise expandCmd(cmd, ...) returns
  runPromise     \* the promise run(cmd, ...) returns

VARIABLES
  ppCall,   \* the preprocessArgs(rawArgs) invocation: [called, rawArgs]
  ppResult  \* what preprocessArgs returned: [args, config]

VARIABLES
  doeCall,       \* the doOnExit(proc, action) invocation: [state, procKind]
  procListeners, \* the listeners doOnExit has on proc: [exit, SIGINT]
  procExiting,   \* proc is exiting (process._exiting); a true process only
  procEmitted,   \* the events emitted on proc from outside, in order
  procLog        \* the calls of action and of proc.exit, in order

VARIABLES
  fapCall,       \* the finallyAsPromised(promise, callback) invocation: [called, callback,
                 \* original: the promise as it was when passed in]
  fapPromise,    \* the promise passed to finallyAsPromised
  fapCbPromise,  \* Promise.resolve(callback())
  fapReturned,   \* the promise finallyAsPromised returns
  fapQueue,      \* the promise reactions waiting to run, in order
  fapCbCalls     \* how often the callback has been called

argsVars == << ppCall, ppResult >>

exitVars == << doeCall, procListeners, procExiting, procEmitted, procLog >>

finallyVars == << fapCall, fapPromise, fapCbPromise, fapReturned, fapQueue, fapCbCalls >>

utilVars == << argsVars, exitVars, finallyVars >>

expandVars == << runCall, config, expandedCmd, subCommands, runLog, spawnLog,
                 debugLog, expandPromise, runPromise >>

spawnVars == << sapCall, spawned, pipes, promise, retPromise, microtasks, data,
                stdoutEnded, chunkCount, host, rl, calls, termOut >>

\* Bounds of the inputs and of the environment's events.
MaxChunks == 2

RawCmds ==
  { << "a" >>,
    << "a", " ", "|", " ", "b" >>,
    << "a", " ", "|", " ", "b", " ", "|", " ", "c" >> }

Chunks == { << "x" >>, << "\n", "y", " " >> }

ReturnOutputs == { RoFalse, RoTrue, RoNum(1) }

SapVersions == { 0, 1, 2, 3 }

\* Every returnOutput and sapVersion with every suppressTbj; dryrun and debug
\* (which change only what is parsed and what is logged) one at a time.
Configs ==
  { c \in [debug : BOOLEAN, dryrun : BOOLEAN, returnOutput : ReturnOutputs,
           sapVersion : SapVersions, suppressTbj : BOOLEAN] :
      /\ c.dryrun => ~c.suppressTbj
      /\ c.debug => (~c.dryrun /\ ~c.suppressTbj /\ c.sapVersion = 1) }

Platforms == { "win32", "linux" }

\* What a child process's 'exit' event carries: a code, or null and a signal.
ExitEvents ==
  { [hasCode |-> TRUE, code |-> 0, signal |-> ""],
    [hasCode |-> TRUE, code |-> 2, signal |-> ""],
    [hasCode |-> FALSE, code |-> 0, signal |-> "SIGTERM"] }

SpawnErrors == { "ENOENT" }

\* The `ev` of a child process that has not exited.
NoExit == [hasCode |-> FALSE, code |-> 0, signal |-> ""]

NoConfig ==
  [debug |-> FALSE, dryrun |-> FALSE, returnOutput |-> RoFalse, sapVersion |-> 1,
   suppressTbj |-> FALSE]

NoCall == [called |-> FALSE, rawCmd |-> << >>, config |-> NoConfig]

NoCalls ==
  [doOnExit |-> 0, suppressTbj |-> 0, spawn |-> 0, onDone |-> 0, unsuppressTbj |-> 0,
   cancelCleanUp |-> 0, cleanUp |-> 0, action |-> 0, procExit |-> 0, debugMessage |-> 0,
   taskkill |-> 0]

InitSpawnVars ==
  /\ sapCall = NoCall
  /\ spawned = << >>
  /\ pipes = {}
  /\ promise = Pending
  /\ retPromise = Pending
  /\ microtasks = << >>
  /\ data = << >>
  /\ stdoutEnded = FALSE
  /\ chunkCount = 0
  /\ host = [exitListener |-> FALSE, sigintListener |-> FALSE, exiting |-> FALSE,
             exited |-> FALSE]
  /\ rl = "none"
  /\ calls = NoCalls
  /\ termOut = << >>

(***************************************************************************)
(* spawnAsPromised: the synchronous part.                                  *)
(***************************************************************************)

ReturnOutputSubset(cfg) == cfg.returnOutput.num

\* (variant) stdout piped for the stages before the last only
Stdio_LastInherits(idx, n, cfg) ==
  << IF idx > 1 THEN "pipe" ELSE "inherit",
     IF idx # n THEN "pipe" ELSE "inherit",
     "inherit" >>

\* The stdio option of stage idx (1-based) of n stages.
Stdio(idx, n, cfg) ==
  << IF idx > 1 THEN "pipe" ELSE "inherit",
     IF idx # n \/ Truthy(cfg.returnOutput) THEN "pipe" ELSE "inherit",
     "inherit" >>

\* (variant) a cleanUp() that returns early whenever returnOutput is truthy
CleanUpWrites_TruthySkips(cfg) ==
  IF Truthy(cfg.returnOutput) THEN << >> ELSE << "resetBold", "showCursor" >>

\* What cleanUp() writes to process.stdout (internalUtils.resetOutputStyle), if anything.
CleanUpWrites(cfg) ==
  IF Truthy(cfg.returnOutput) /\ ~ReturnOutputSubset(cfg)
  THEN << >>
  ELSE << "resetBold", "showCursor" >>

CleanUpDebugs(cfg) ==
  IF Truthy(cfg.returnOutput) /\ ~ReturnOutputSubset(cfg) THEN 0
  ELSE IF cfg.debug THEN 1 ELSE 0

\* (variant) getReturnData() without data.trim()
GetReturnData_Untrimmed(cfg, d) ==
  IF ~ReturnOutputSubset(cfg) THEN d ELSE GetLastLines(d, cfg.returnOutput.n)

\* getReturnData() of the promise executor.
GetReturnData(cfg, d) ==
  IF ~ReturnOutputSubset(cfg) THEN d ELSE GetLastLines(Trim(d), cfg.returnOutput.n)

\* (variant) a promise that every resolve / reject call settles anew
Settle_LastWins(p, outcome) == outcome

\* resolve(v) / reject(v): a promise settles once; its reactions (the handlers
\* finallyAsPromised registered) are queued when it does.
Settle(p, outcome) == IF p.state = "pending" THEN outcome ELSE p

\* Reactions if onDone were called by every resolve / reject call.
Reactions_EveryCall(p, outcome, queue) == queue \o << "onDone" >>

\* Reactions if the returned promise were settled without waiting for onDone.
Reactions_SettleFirst(p, outcome, queue) ==
  IF p.state = "pending" THEN queue \o << "settle", "onDone" >> ELSE queue

Reactions(p, outcome, queue) ==
  IF p.state = "pending" THEN queue \o << "onDone" >> ELSE queue

\* (variant) a cancel function that removes the 'exit' listener only
CancelCleanUp_ExitOnly(h) == [h EXCEPT !.exitListener = FALSE]

\* cancelCleanUp(): the function doOnExit returned removes both listeners.
CancelCleanUp(h) == [h EXCEPT !.exitListener = FALSE, !.sigintListener = FALSE]

\* `platform` is process.platform, read by suppressTerminateBatchJobConfirmation.
SpawnAsPromised(rawCmd, cfg, platform) ==
  /\ ~sapCall.called
  /\ ~host.exited
  /\ sapCall' = [called |-> TRUE, rawCmd |-> rawCmd, config |-> cfg]
  /\ host' = [host EXCEPT !.exitListener = TRUE, !.sigintListener = TRUE]
  /\ rl' = IF cfg.suppressTbj /\ platform = "win32" THEN "open" ELSE rl
  /\ LET known == KnownSapVersion(cfg.sapVersion)
         specs == IF known THEN ParseRawCmd(rawCmd, cfg.sapVersion, cfg.dryrun) ELSE << >>
         n     == Len(specs)
         thrown == Rejected(ErrVal(UnknownSapVersion(cfg.sapVersion)))
     IN  /\ spawned' = [i \in 1..n |->
                          [executable |-> specs[i].executable, args |-> specs[i].args,
                           stdio |-> Stdio(i, n, cfg),
                           exited |-> FALSE, ev |-> NoExit,
                           errored |-> FALSE, err |-> ""]]
         /\ pipes' = { << << "stdout", i >>, << "stdin", i + 1 >> >> : i \in 1..(n - 1) }
                     \cup (IF known /\ Truthy(cfg.returnOutput)
                           THEN { << << "stdout", n >>, << "outputStream", 0 >> >> }
                           ELSE {})
                     \cup (IF known /\ Truthy(cfg.returnOutput) /\ ReturnOutputSubset(cfg)
                           THEN { << << "outputStream", 0 >>, << "process.stdout", 0 >> >> }
                           ELSE {})
         /\ promise' = IF known THEN promise ELSE Settle(promise, thrown)
         /\ microtasks' = IF known THEN microtasks ELSE Reactions(promise, thrown, microtasks)
         /\ calls' = [calls EXCEPT !.doOnExit = @ + 1,
                                   !.suppressTbj = @ + (IF cfg.suppressTbj THEN 1 ELSE 0),
                                   !.spawn = @ + n,
                                   !.debugMessage = @ + (IF cfg.debug THEN n ELSE 0)]
  /\ UNCHANGED << retPromise, data, stdoutEnded, chunkCount, termOut >>
  /\ UNCHANGED << expandVars, utilVars >>

(***************************************************************************)
(* Events of the child processes and of the last stage's stdout.  A handler *)
(* runs only when no promise reaction is waiting: reactions (microtasks)    *)
(* run before the event loop delivers the next event.                       *)
(***************************************************************************)

Running == sapCall.called /\ ~host.exited /\ microtasks = << >>

\* CodeOrSignal as `reject(code)` would compute it.
CodeOrSignal_CodeOnly(ev) == CodeVal(ev.code)

\* reject(code || signal)
CodeOrSignal(ev) ==
  IF ev.hasCode /\ ev.code # 0 THEN CodeVal(ev.code) ELSE SignalVal(ev.signal)

\* ExitOutcome without the `isLast` test: any stage's exit with code 0 resolves.
ExitOutcome_AnyStageResolves(i, ev) ==
  IF ~(ev.hasCode /\ ev.code = 0) THEN Rejected(CodeOrSignal(ev))
  ELSE Resolved(StrVal(GetReturnData(sapCall.config, data)))

\* (variant) an 'exit' handler that rejects on failure and never resolves
ExitOutcome_FailuresOnly(i, ev) ==
  IF ~(ev.hasCode /\ ev.code = 0) THEN Rejected(CodeOrSignal(ev))
  ELSE [state |-> "none", value |-> StrVal(<< >>)]

\* The outcome the 'exit' handler of stage i asks for: "none" when it returns
\* without calling resolve or reject.
ExitOutcome(i, ev) ==
  IF ~(ev.hasCode /\ ev.code = 0) THEN Rejected(CodeOrSignal(ev))
  ELSE IF i = Len(spawned) THEN Resolved(StrVal(GetReturnData(sapCall.config, data)))
  ELSE [state |-> "none", value |-> StrVal(<< >>)]

\* on('exit', (code, signal) => ...)
ChildExit(i, ev) ==
  /\ Running
  /\ i \in 1..Len(spawned)
  /\ ~spawned[i].exited
  /\ spawned' = [spawned EXCEPT ![i].exited = TRUE, ![i].ev = ev]
  /\ LET outcome == ExitOutcome(i, ev)
     IN  IF outcome.state = "none"
         THEN UNCHANGED << promise, microtasks >>
         ELSE /\ promise' = Settle(promise, outcome)
              /\ microtasks' = Reactions(promise, outcome, microtasks)
  /\ UNCHANGED << sapCall, pipes, retPromise, data, stdoutEnded, chunkCount, host, rl,
                  calls, termOut >>
  /\ UNCHANGED << expandVars, utilVars >>

\* on('error', reject)
ChildError(i, err) ==
  /\ Running
  /\ i \in 1..Len(spawned)
  /\ ~spawned[i].exited
  /\ ~spawned[i].errored
  /\ spawned' = [spawned EXCEPT ![i].errored = TRUE, ![i].err = err]
  /\ promise' = Settle(promise, Rejected(ErrVal(err)))
  /\ microtasks' = Reactions(promise, Rejected(ErrVal(err)), microtasks)
  /\ UNCHANGED << sapCall, pipes, retPromise, data, stdoutEnded, chunkCount, host, rl,
                  calls, termOut >>
  /\ UNCHANGED << expandVars, utilVars >>

HasOutputStream == << << "stdout", Len(spawned) >>, << "outputStream", 0 >> >> \in pipes

\* outputStream.on('data', d => data += d), and outputStream.pipe(process.stdout)
StdoutData(chunk) ==
  /\ Running
  /\ HasOutputStream
  /\ ~stdoutEnded
  /\ chunkCount < MaxChunks
  /\ data' = data \o chunk
  /\ chunkCount' = chunkCount + 1
  /\ termOut' = IF << << "outputStream", 0 >>, << "process.stdout", 0 >> >> \in pipes
                THEN termOut \o << "data" >>
                ELSE termOut
  /\ UNCHANGED << sapCall, spawned, pipes, promise, retPromise, microtasks, stdoutEnded,
                  host, rl, calls >>
  /\ UNCHANGED << expandVars, utilVars >>

\* The last stage's stdout ends; this may happen before or after its 'exit' event.
StdoutEnd ==
  /\ Running
  /\ HasOutputStream
  /\ ~stdoutEnded
  /\ stdoutEnded' = TRUE
  /\ UNCHANGED << sapCall, spawned, pipes, promise, retPromise, microtasks, data,
                  chunkCount, host, rl, calls, termOut >>
  /\ UNCHANGED << expandVars, utilVars >>

(***************************************************************************)
(* finallyAsPromised(promise, onDone): the reactions.                      *)
(***************************************************************************)

\* val => Promise.resolve(callback()).then(...): runs onDone(), i.e.
\* unsuppressTbj(); cancelCleanUp(); cleanUp();
OnDone ==
  /\ sapCall.called
  /\ ~host.exited
  /\ microtasks # << >>
  /\ microtasks[1] = "onDone"
  /\ rl' = IF rl = "open" THEN "closing" ELSE rl
  /\ host' = CancelCleanUp(host)
  /\ calls' = [calls EXCEPT !.onDone = @ + 1, !.unsuppressTbj = @ + 1,
                            !.cancelCleanUp = @ + 1, !.cleanUp = @ + 1,
                            !.debugMessage = @ + CleanUpDebugs(sapCall.config)]
  /\ termOut' = termOut \o CleanUpWrites(sapCall.config)
  /\ microtasks' = Drop(microtasks, 1) \o << "settle" >>
  /\ UNCHANGED << sapCall, spawned, pipes, promise, retPromise, data, stdoutEnded,
                  chunkCount >>
  /\ UNCHANGED << expandVars, utilVars >>

\* .then(() => val) / .then(() => Promise.reject(err)): the returned promise settles.
SettleReturned ==
  /\ sapCall.called
  /\ ~host.exited
  /\ microtasks # << >>
  /\ microtasks[1] = "settle"
  /\ retPromise' = promise
  /\ microtasks' = Drop(microtasks, 1)
  /\ UNCHANGED << sapCall, spawned, pipes, promise, data, stdoutEnded, chunkCount, host,
                  rl, calls, termOut >>
  /\ UNCHANGED << expandVars, utilVars >>

\* setTimeout(() => rlInstance.close(), 0)
RlCloseTimer ==
  /\ Running
  /\ rl = "closing"
  /\ rl' = "closed"
  /\ UNCHANGED << sapCall, spawned, pipes, promise, retPromise, microtasks, data,
                  stdoutEnded, chunkCount, host, calls, termOut >>
  /\ UNCHANGED << expandVars, utilVars >>

(***************************************************************************)
(* Events of the host process (ProcessUtils.doOnExit).                     *)
(***************************************************************************)

\* How many of the listeners doOnExit registered run when the host gets SIGINT
\* (sigint = TRUE) or is asked to exit.  signalListener calls action(signal)
\* and proc.exit(1); proc.exit emits 'exit' unless the process is exiting
\* already; exitListener calls action(code) and proc.exit(code).
ListenersRun(h, sigint) ==
  (IF sigint /\ h.sigintListener THEN 1 ELSE 0)
    + (IF ~h.exiting /\ h.exitListener THEN 1 ELSE 0)

RECURSIVE Repeat(_, _)
Repeat(s, k) == IF k = 0 THEN << >> ELSE s \o Repeat(s, k - 1)

\* The host process receives SIGINT.  Without a listener the process is killed
\* by the signal and no 'exit' event is emitted.
HostSigint ==
  /\ Running
  /\ LET k == IF host.sigintListener THEN ListenersRun(host, TRUE) ELSE 0
     IN  /\ calls' = [calls EXCEPT !.action = @ + k, !.cleanUp = @ + k, !.procExit = @ + k,
                                   !.debugMessage = @ + k * CleanUpDebugs(sapCall.config)]
         /\ termOut' = termOut \o Repeat(CleanUpWrites(sapCall.config), k)
  /\ host' = [host EXCEPT !.exiting = TRUE, !.exited = TRUE]
  /\ UNCHANGED << sapCall, spawned, pipes, promise, retPromise, microtasks, data,
                  stdoutEnded, chunkCount, rl >>
  /\ UNCHANGED << expandVars, utilVars >>

\* The host process exits (process.exit() elsewhere, or nothing left to do).
HostExit ==
  /\ Running
  /\ LET k == ListenersRun(host, FALSE)
     IN  /\ calls' = [calls EXCEPT !.action = @ + k, !.cleanUp = @ + k, !.procExit = @ + k,
                                   !.debugMessage = @ + k * CleanUpDebugs(sapCall.config)]
         /\ termOut' = termOut \o Repeat(CleanUpWrites(sapCall.config), k)
  /\ host' = [host EXCEPT !.exiting = TRUE, !.exited = TRUE]
  /\ UNCHANGED << sapCall, spawned, pipes, promise, retPromise, microtasks, data,
                  stdoutEnded, chunkCount, rl >>
  /\ UNCHANGED << expandVars, utilVars >>

\* rlInstance.on('SIGINT', () => exec(`taskkill /F /PID ${proc.pid} /T`)): while the
\* readline interface is open it receives Ctrl+C, and the host is killed by force.
RlSigint ==
  /\ Running
  /\ rl = "open"
  /\ calls' = [calls EXCEPT !.taskkill = @ + 1]
  /\ host' = [host EXCEPT !.exited = TRUE]
  /\ UNCHANGED << sapCall, spawned, pipes, promise, retPromise, microtasks, data,
                  stdoutEnded, chunkCount, rl, termOut >>
  /\ UNCHANGED << expandVars, utilVars >>

NextSpawn ==
  \/ \E rawCmd \in RawCmds, cfg \in Configs, platform \in Platforms :
        SpawnAsPromised(rawCmd, cfg, platform)
  \/ \E i \in 1..Len(spawned), ev \in ExitEvents : ChildExit(i, ev)
  \/ \E i \in 1..Len(spawned), err \in SpawnErrors : ChildError(i, err)
  \/ \E chunk \in Chunks : StdoutData(chunk)
  \/ StdoutEnd
  \/ OnDone
  \/ SettleReturned
  \/ RlCloseTimer
  \/ HostSigint
  \/ HostExit
  \/ RlSigint

(***************************************************************************)
(* run() and expandCmd().  The spawnAsPromised call a run() makes is seen  *)
(* here by its contract only: it resolves with the output it returns under *)
(* the config it was given, or rejects with a code, a signal or an error.   *)
(***************************************************************************)

Templates ==
  { << "$", "{", "1", ":", ":", ":", "a", "}", " ", "$", "{", "1", ":", ":",
      ":", "a", " ", "-", "-", "g", "k", "c", "u", "-", "r", "e", "t", "u",
      "r", "n", "O", "u", "t", "p", "u", "t", "=", "1", "}" >>,
    << "$", "{", "1", ":", ":", ":", "a", "}", " ", "$", "{", "2", ":", ":",
      ":", "b", "}" >>,
    << "x", " ", "$", "{", "0", ":", ":", ":", "a", " ", "$", "1", "}", "$",
      "{", "2", ":", ":", ":", "b", "}", " ", "$", "{", "0", ":", ":", ":",
      "a", " ", "$", "1", "}" >>,
    << "$", "1", " ", "$", "{", "2", ":", "v", "}" >> }

ArgLists == { << >>, << << "p" >> >> }

\* The configs of a run() call: sapVersion and suppressTbj only matter to spawnAsPromised.
RunConfigs == { c \in Configs : c.sapVersion = 1 /\ ~c.suppressTbj }

\* What a spawned command may print.
RawOutputs == { << "x" >>, << >>, << " ", "y", "\n", "z", "\n" >>, << "$", "'" >>, << "ESC", "[", "0", "m", "w" >> }

Failures == { CodeVal(2), SignalVal("SIGTERM"), ErrVal("ENOENT") }

NoRun == [called |-> FALSE, cmd |-> << >>, runtimeArgs |-> << >>, config |-> NoConfig]

InitExpandVars ==
  /\ runCall = NoRun
  /\ config = NoConfig
  /\ expandedCmd = << >>
  /\ subCommands = << >>
  /\ runLog = << >>
  /\ spawnLog = << >>
  /\ debugLog = << >>
  /\ expandPromise = Pending
  /\ runPromise = Pending

\* The values the promises of finallyAsPromised settle with.
FapValues == { StrVal(<< "f", "o", "o" >>), StrVal(<< "b", "a", "r" >>) }

NoCallback == [kind |-> "return", value |-> StrVal(<< >>)]

InitUtilVars ==
  /\ ppCall = [called |-> FALSE, rawArgs |-> << >>]
  /\ ppResult = [args |-> << >>, config |-> << >>]
  /\ doeCall = [state |-> "none", procKind |-> "mock"]
  /\ procListeners = [exit |-> FALSE, SIGINT |-> FALSE]
  /\ procExiting = FALSE
  /\ procEmitted = << >>
  /\ procLog = << >>
  /\ fapCall = [called |-> FALSE, callback |-> NoCallback, original |-> Pending]
  /\ fapPromise = Pending
  /\ fapCbPromise = Pending
  /\ fapReturned = Pending
  /\ fapQueue = << >>
  /\ fapCbCalls = 0

Init == InitSpawnVars /\ InitExpandVars /\ InitUtilVars

\* Object.assign({}, config, {returnOutput}): the object it returns.
ObjectAssign(cfg, returnOutput) == [cfg EXCEPT !.returnOutput = returnOutput]

\* (variant) Object.assign(config, {returnOutput})
AssignTargetIsConfig_True == TRUE

\* Is `config` itself the target that Object.assign writes to?  (It is `{}`.)
AssignTargetIsConfig == FALSE

\* The returnOutput expandCmd runs a sub-command with.
RunReturnOutput(infoList) ==
  IF \E k \in 1..Len(infoList) : infoList[k].returnOutput.num
  THEN RoNum(Infinity)
  ELSE RoTrue

\* The two debugMessage calls of run().
DebugMessages(cfg, cmd, expanded) ==
  IF cfg.debug
  THEN << [label |-> "Input command", text |-> cmd],
          [label |-> "Expanded command", text |-> expanded] >>
  ELSE << >>

RECURSIVE SubRunDebugs(_, _, _)
SubRunDebugs(entries, runtimeArgs, k) ==
  IF k > Len(entries) THEN << >>
  ELSE DebugMessages(entries[k].runConfig, entries[k].subCmd,
                     ReplaceAll(entries[k].subCmd, runtimeArgs).out)
         \o SubRunDebugs(entries, runtimeArgs, k + 1)

\* The entries of subCommands for the infos that cmd.replace() pushed.
SubCommandEntries(infos, cfg) ==
  LET keys == MapKeys(infos, << >>)
  IN  [k \in 1..Len(keys) |->
         [subCmd |-> keys[k],
          infoList |-> InfoList(infos, keys[k]),
          runConfig |-> ObjectAssign(cfg, RunReturnOutput(InfoList(infos, keys[k]))),
          state |-> "running", result |-> << >>, failure |-> StrVal(<< >>)]]

\* The caller creates the config object cfg and calls run(cmd, runtimeArgs, cfg):
\* expandCmd replaces the placeholders and starts this.run(subCmd, runtimeArgs,
\* runConfig) for every key of subCommands; each of these expands subCmd (which
\* cannot hold a fallback, as it has no closing brace) and calls spawnAsPromised.
Run(cmd, runtimeArgs, cfg) ==
  /\ ~runCall.called
  /\ runCall' = [called |-> TRUE, cmd |-> cmd, runtimeArgs |-> runtimeArgs, config |-> cfg]
  /\ \E r \in { ReplaceAll(cmd, runtimeArgs) } :
     \E entries \in { SubCommandEntries(r.infos, cfg) } :
         /\ expandedCmd' = r.out
         /\ subCommands' = entries
         /\ runLog' = [k \in 1..Len(entries) |->
                         [subCmd |-> entries[k].subCmd, runtimeArgs |-> runtimeArgs,
                          config |-> entries[k].runConfig]]
         /\ spawnLog' = [k \in 1..Len(entries) |->
                           [cmd |-> ReplaceAll(entries[k].subCmd, runtimeArgs).out,
                            config |-> entries[k].runConfig, outer |-> FALSE]]
         /\ debugLog' = SubRunDebugs(entries, runtimeArgs, 1)
         /\ config' = IF AssignTargetIsConfig /\ entries # << >>
                      THEN entries[Len(entries)].runConfig
                      ELSE cfg
         /\ expandPromise' = IF entries = << >> THEN Resolved(StrVal(r.out)) ELSE Pending
  /\ UNCHANGED runPromise
  /\ UNCHANGED << spawnVars, utilVars >>

AllResolved(entries) == \A k \in 1..Len(entries) : entries[k].state = "resolved"

\* The spawnAsPromised call of sub-command k resolves, having read rawData from
\* the command's stdout: cleanUpOutput, then the replPromises callbacks, then
\* (when it was the last one) Promise.all and the end of expandCmd.
SubCmdResolve(k, rawData) ==
  /\ runCall.called
  /\ k \in 1..Len(subCommands)
  /\ subCommands[k].state = "running"
  /\ LET result == CleanUpOutput(GetReturnData(subCommands[k].runConfig, rawData))
         str    == ReplaceInfos(expandedCmd, subCommands[k].infoList, result, config.dryrun)
         entries == [subCommands EXCEPT ![k].state = "resolved", ![k].result = result]
     IN  /\ expandedCmd' = str
         /\ subCommands' = entries
         /\ expandPromise' = IF AllResolved(entries)
                             THEN Settle(expandPromise, Resolved(StrVal(str)))
                             ELSE expandPromise
  /\ UNCHANGED << runCall, config, runLog, spawnLog, debugLog, runPromise >>
  /\ UNCHANGED << spawnVars, utilVars >>

\* The run of sub-command k fails: Promise.all rejects, and so does the run()
\* that awaits expandCmd.
SubCmdReject(k, failure) ==
  /\ runCall.called
  /\ k \in 1..Len(subCommands)
  /\ subCommands[k].state = "running"
  /\ subCommands' = [subCommands EXCEPT ![k].state = "rejected", ![k].failure = failure]
  /\ expandPromise' = Settle(expandPromise, Rejected(failure))
  /\ runPromise' = Settle(runPromise, Rejected(failure))
  /\ UNCHANGED << runCall, config, expandedCmd, runLog, spawnLog, debugLog >>
  /\ UNCHANGED << spawnVars, utilVars >>

OuterSpawned == \E k \in 1..Len(spawnLog) : spawnLog[k].outer

\* run() after `await this.expandCmd(...)`: return this.spawnAsPromised(expandedCmd, config)
RunSpawn ==
  /\ runCall.called
  /\ expandPromise.state = "resolved"
  /\ ~OuterSpawned
  /\ spawnLog' = Append(spawnLog,
                        [cmd |-> expandPromise.value.text, config |-> config, outer |-> TRUE])
  /\ debugLog' = debugLog \o DebugMessages(config, runCall.cmd, expandPromise.value.text)
  /\ UNCHANGED << runCall, config, expandedCmd, subCommands, runLog, expandPromise,
                  runPromise >>
  /\ UNCHANGED << spawnVars, utilVars >>

\* The outer spawnAsPromised call settles, and run() with it.
RunSettle(outcome) ==
  /\ OuterSpawned
  /\ runPromise.state = "pending"
  /\ runPromise' = outcome
  /\ UNCHANGED << runCall, config, expandedCmd, subCommands, runLog, spawnLog,
                  debugLog, expandPromise >>
  /\ UNCHANGED << spawnVars, utilVars >>

NextExpand ==
  \/ \E cmd \in Templates, runtimeArgs \in ArgLists, cfg \in RunConfigs :
        Run(cmd, runtimeArgs, cfg)
  \/ \E k \in 1..Len(subCommands), rawData \in RawOutputs : SubCmdResolve(k, rawData)
  \/ \E k \in 1..Len(subCommands), failure \in Failures : SubCmdReject(k, failure)
  \/ RunSpawn
  \/ \E rawData \in RawOutputs :
        RunSettle(Resolved(StrVal(GetReturnData(config, rawData))))
  \/ \E failure \in Failures : RunSettle(Rejected(failure))

(***************************************************************************)
(* expandCmd() on templates built around one placeholder form: the form in *)
(* the notation of the documentation of expandCmd (kind and n name what it  *)
(* denotes there; literal / command are its fallback), with or without a    *)
(* leading whitespace character, an escaping backslash and text around it.  *)
(***************************************************************************)

PlaceholderForms ==
  { [text |-> << "$", "*" >>, kind |-> "all", n |-> 0, literal |-> << >>, command |-> << >>],
    [text |-> << "$", "{", "*", "}" >>, kind |-> "all", n |-> 0, literal |-> << >>, command |-> << >>],
    [text |-> << "$", "1" >>, kind |-> "at", n |-> 1, literal |-> << >>, command |-> << >>],
    [text |-> << "$", "{", "1", "}" >>, kind |-> "at", n |-> 1, literal |-> << >>, command |-> << >>],
    [text |-> << "$", "2" >>, kind |-> "at", n |-> 2, literal |-> << >>, command |-> << >>],
    [text |-> << "$", "1", "*" >>, kind |-> "from", n |-> 1, literal |-> << >>, command |-> << >>],
    [text |-> << "$", "{", "1", "*", "}" >>, kind |-> "from", n |-> 1, literal |-> << >>, command |-> << >>],
    [text |-> << "$", "2", "*" >>, kind |-> "from", n |-> 2, literal |-> << >>, command |-> << >>],
    [text |-> << "$", "{", "2", "*", "}" >>, kind |-> "from", n |-> 2, literal |-> << >>, command |-> << >>],
    [text |-> << "$", "1", "0", "*" >>, kind |-> "from", n |-> 10, literal |-> << >>, command |-> << >>],
    [text |-> << "$", "{", "1", "0", "*", "}" >>, kind |-> "from", n |-> 10, literal |-> << >>, command |-> << >>],
    [text |-> << "$", "{", "2", "0", "*", "}" >>, kind |-> "from", n |-> 20, literal |-> << >>, command |-> << >>],
    [text |-> << "$", "0" >>, kind |-> "at", n |-> 0, literal |-> << >>, command |-> << >>],
    [text |-> << "$", "{", "0", "}" >>, kind |-> "at", n |-> 0, literal |-> << >>, command |-> << >>],
    [text |-> << "$", "{", "0", ":", "V", "}" >>, kind |-> "at", n |-> 0, literal |-> << "V" >>, command |-> << >>],
    [text |-> << "$", "0", "*" >>, kind |-> "from", n |-> 0, literal |-> << >>, command |-> << >>],
    [text |-> << "$", "{", "0", "*", "}" >>, kind |-> "from", n |-> 0, literal |-> << >>, command |-> << >>],
    [text |-> << "$", "{", "1", ":", "V", "}" >>, kind |-> "at", n |-> 1, literal |-> << "V" >>, command |-> << >>],
    [text |-> << "$", "{", "2", ":", "V", " ", "W", "}" >>, kind |-> "at", n |-> 2, literal |-> << "V", " ", "W" >>, command |-> << >>],
    [text |-> << "$", "{", "*", ":", "V", "}" >>, kind |-> "all", n |-> 0, literal |-> << "V" >>, command |-> << >>],
    [text |-> << "$", "{", "2", "*", ":", "V", "}" >>, kind |-> "from", n |-> 2, literal |-> << "V" >>, command |-> << >>],
    [text |-> << "$", "{", "3", ":", "}" >>, kind |-> "at", n |-> 3, literal |-> << >>, command |-> << >>],
    [text |-> << "$", "{", "2", ":", ":", ":", "a", "}" >>, kind |-> "at", n |-> 2, literal |-> << >>, command |-> << "a" >>],
    [text |-> << "$", "{", "2", ":", ":", ":", "a", " ", "-", "-", "g", "k", "c", "u",
      "-", "r", "e", "t", "u", "r", "n", "O", "u", "t", "p", "u", "t", "}" >>, kind |-> "at", n |-> 2, literal |-> << >>, command |-> << "a", " ", "-", "-", "g", "k", "c", "u", "-", "r", "e", "t", "u", "r",
      "n", "O", "u", "t", "p", "u", "t" >>],
    [text |-> << "$", "{", "2", ":", ":", ":", "a", " ", "-", "-", "g", "k", "c", "u",
      "-", "r", "e", "t", "u", "r", "n", "O", "u", "t", "p", "u", "t", "=",
      "0", "}" >>, kind |-> "at", n |-> 2, literal |-> << >>, command |-> << "a", " ", "-", "-", "g", "k", "c", "u", "-", "r", "e", "t", "u", "r",
      "n", "O", "u", "t", "p", "u", "t", "=", "0" >>],
    [text |-> << "$", "{", "2", ":", ":", ":", "a", " ", "-", "-", "g", "k", "c", "u",
      "-", "r", "e", "t", "u", "r", "n", "O", "u", "t", "p", "u", "t", "=",
      "1", "}" >>, kind |-> "at", n |-> 2, literal |-> << >>, command |-> << "a", " ", "-", "-", "g", "k", "c", "u", "-", "r", "e", "t", "u", "r",
      "n", "O", "u", "t", "p", "u", "t", "=", "1" >>],
    [text |-> << "$", "{", "2", ":", ":", ":", "a", " ", "-", "-", "g", "k", "c", "u",
      "-", "r", "e", "t", "u", "r", "n", "O", "u", "t", "p", "u", "t", "=",
      "2", "}" >>, kind |-> "at", n |-> 2, literal |-> << >>, command |-> << "a", " ", "-", "-", "g", "k", "c", "u", "-", "r", "e", "t", "u", "r",
      "n", "O", "u", "t", "p", "u", "t", "=", "2" >>],
    [text |-> << "$", "{", "0", ":", ":", ":", "a", "}", " ", "$", "{", "0", ":", ":",
      ":", "a", " ", "-", "-", "g", "k", "c", "u", "-", "r", "e", "t", "u",
      "r", "n", "O", "u", "t", "p", "u", "t", "=", "2", "}" >>, kind |-> "at", n |-> 0, literal |-> << >>, command |-> << "a" >>] }

Pres == { << >>, << "x" >> }

LeadingWs == { << >>, << " " >> }

Escapes == { << >>, << "\\" >> }

Posts == { << >>, << " ", "y" >> }

TemplateOf(pre, g1, esc, form, post) == pre \o g1 \o esc \o form.text \o post

PlaceholderTemplates ==
  { TemplateOf(pre, g1, esc, form, post) :
      pre \in Pres, g1 \in LeadingWs, esc \in Escapes, form \in PlaceholderForms,
      post \in Posts }

TemplateArgs == { << >>, << << "p" >> >>, << << "p" >>, << "q" >> >>, << << >>, << "q" >> >> }

TemplateConfigs == { c \in RunConfigs : ~c.debug /\ c.returnOutput = RoFalse }

TemplateOutputs == { << >>, << "x" >>, << "u", "\n", "v", "\n", "w", "\n" >>, << "$", "$" >>, << "$", "&" >> }

NextTemplate ==
  \/ \E cmd \in PlaceholderTemplates, runtimeArgs \in TemplateArgs, cfg \in TemplateConfigs :
        Run(cmd, runtimeArgs, cfg)
  \/ \E k \in 1..Len(subCommands), rawData \in TemplateOutputs : SubCmdResolve(k, rawData)
  \/ \E k \in 1..Len(subCommands), failure \in Failures : SubCmdReject(k, failure)
  \/ RunSpawn

(***************************************************************************)
(* spawnAsPromised() with traditional (sapVersion 1) parsing, on commands   *)
(* made of one to three stages joined by whitespace-delimited pipes.        *)
(***************************************************************************)

SingleStages == { << "a" >>,
    << "b", " ", "c" >>,
    << "a", " ", "&", "&", " ", "b" >>,
    << "(", " ", "a", " ", "|", "|", " ", "b", " ", ")", " ", "&", "&", " ",
      "c" >>,
    << "(", "a", " ", "&", "&", " ", "(", "b" >>,
    << "a", " ", "|", "|" >>,
    << >> }

PairStages == { << "a" >>, << "(", "a", " ", "&", "&", " ", "b" >>, << "a", " ", "\"", "b" >>, << "c", "\"" >> }

StageLists ==
  { << s >> : s \in SingleStages }
    \cup { << s, t >> : s \in PairStages, t \in PairStages }
    \cup { << << "a" >>, << "b" >>, << "c" >> >>, << << "a" >>, << "a", " ", "&", "&", " ", "b" >>, << "c" >> >> }

Separators == { << " ", "|", " " >>, << " ", " ", "|", "\t" >> }

ParseCmds == { Join(stages, sep) : stages \in StageLists, sep \in Separators }

ParseConfigs ==
  { c \in Configs : /\ c.sapVersion = 1 /\ ~c.debug /\ ~c.suppressTbj
                    /\ c.returnOutput \in { RoFalse, RoTrue } }

NextParse ==
  \/ \E rawCmd \in ParseCmds, cfg \in ParseConfigs : SpawnAsPromised(rawCmd, cfg, "linux")
  \/ \E i \in 1..Len(spawned), ev \in ExitEvents : ChildExit(i, ev)
  \/ OnDone
  \/ SettleReturned

(***************************************************************************)
(* preprocessArgs(rawArgs).                                                *)
(***************************************************************************)

\* Bound of the input.
MaxRawArgs == 2

MetaPrefix == << "-", "-", "g", "k", "c", "u", "-" >>

LowerLetters ==
  { "a", "b", "c", "d", "e", "f", "g", "h", "i", "j", "k", "l", "m", "n", "o", "p", "q",
    "r", "s", "t", "u", "v", "w", "x", "y", "z" }

\* (variant) metaArgRe without its lookahead: /^--gkcu-/
MetaArgMatch_PrefixOnly(arg) == MatchesAt(arg, MetaPrefix, 1)

\* metaArgRe.test(arg), metaArgRe = /^--gkcu-(?=[a-z])/
MetaArgMatch(arg) ==
  /\ MatchesAt(arg, MetaPrefix, 1)
  /\ Len(arg) > Len(MetaPrefix)
  /\ arg[Len(MetaPrefix) + 1] \in LowerLetters

\* /\s/.test(arg) ? `"${arg}"` : arg
QuoteIfNecessary(arg) ==
  IF \E i \in 1..Len(arg) : IsWs(arg[i]) THEN << "\"" >> \o arg \o << "\"" >> ELSE arg

\* The values of a config property: a number, a string or true.
CfgNum(n) == [t |-> "number", n |-> n, s |-> << >>]

CfgStr(s) == [t |-> "string", n |-> 0, s |-> s]

CfgTrue == [t |-> "boolean", n |-> 0, s |-> << >>]

\* +value for a string of digits, whitespace and characters that are part of
\* no numeric literal: surrounding whitespace is dropped, the empty string is
\* 0, a string of digits is the number it denotes, anything else is NaN.
ToNumber(value) ==
  LET t == Trim(value)
  IN  IF t = << >> THEN [nan |-> FALSE, n |-> 0]
      ELSE IF \A i \in 1..Len(t) : t[i] \in Digits THEN [nan |-> FALSE, n |-> DigitsToNat(t)]
      ELSE [nan |-> TRUE, n |-> 0]

\* +value || value || true
MetaValue(value) ==
  LET num == ToNumber(value)
  IN  IF ~num.nan /\ num.n # 0 THEN CfgNum(num.n)
      ELSE IF value # << >> THEN CfgStr(value)
      ELSE CfgTrue

\* processMetaArg(arg): config[key] = ..., with [key, ...rest] = arg.split('=')
\* and value = rest.join('='); `cfg` is the config object before, the result
\* the config object after.
ProcessMetaArg(cfg, arg) ==
  LET parts == SplitChar(arg, "=")
      key   == parts[1]
      value == Join(Drop(parts, 1), << "=" >>)
  IN  (key :> MetaValue(value)) @@ cfg

\* rawArgs.filter(arg => !metaArgRe.test(arg) || processMetaArg(arg.replace(metaArgRe, ''))):
\* processMetaArg returns undefined, so a meta argument is filtered out.
RECURSIVE FilterArgs(_)
FilterArgs(rawArgs) ==
  IF rawArgs = << >> THEN << >>
  ELSE (IF MetaArgMatch(rawArgs[1]) THEN << >> ELSE << rawArgs[1] >>)
         \o FilterArgs(Drop(rawArgs, 1))

\* The config object after the filter has visited rawArgs, starting from cfg.
RECURSIVE ConfigOf(_, _)
ConfigOf(rawArgs, cfg) ==
  IF rawArgs = << >> THEN cfg
  ELSE ConfigOf(Drop(rawArgs, 1),
                IF MetaArgMatch(rawArgs[1])
                THEN ProcessMetaArg(cfg, Drop(rawArgs[1], Len(MetaPrefix)))
                ELSE cfg)

\* .map(quoteIfNecessary)
MapQuote(args) == [i \in 1..Len(args) |-> QuoteIfNecessary(args[i])]

\* Object.create(null)
EmptyConfig == << >>

PpArgs ==
  { << "f", "o", "o" >>,
    << "b", "a", "r", " ", "b", "a", "z" >>,
    << "q", "\t", "x" >>,
    << "-", "-", "g", "k", "c", "u", "-", "b", "a", "r" >>,
    << "-", "-", "g", "k", "c", "u", "-", "b", "a", "r", "=", "4", "2" >>,
    << "-", "-", "g", "k", "c", "u", "-", "b", "a", "r", "=", "0" >>,
    << "-", "-", "g", "k", "c", "u", "-", "n", "=", "0", "0", "7" >>,
    << "-", "-", "g", "k", "c", "u", "-", "n", "=", "v" >>,
    << "-", "-", "g", "k", "c", "u", "-", "n", "=", "1", "=", "2" >>,
    << "-", "-", "g", "k", "c", "u", "-", "n", "=" >>,
    << "-", "-", "g", "k", "c", "u", "-", "n", "=", " ", "7" >>,
    << "-", "-", "g", "k", "c", "u", "-", "a", " ", "b", "=", "c", " ", "d" >>,
    << "-", "-", "g", "k", "c", "u", "-" >>,
    << "-", "-", "g", "k", "c", "u", "-", "B", "a", "r", "=", "1" >>,
    << "-", "-", "g", "k", "c", "u", "-", "1" >> }

RawArgLists == UNION { [1..n -> PpArgs] : n \in 0..MaxRawArgs }

PreprocessArgs(rawArgs) ==
  /\ ~ppCall.called
  /\ ppCall' = [called |-> TRUE, rawArgs |-> rawArgs]
  /\ ppResult' = [args   |-> MapQuote(FilterArgs(rawArgs)),
                  config |-> ConfigOf(rawArgs, EmptyConfig)]
  /\ UNCHANGED << spawnVars, expandVars, exitVars, finallyVars >>

NextArgs == \E rawArgs \in RawArgLists : PreprocessArgs(rawArgs)

(***************************************************************************)
(* ProcessUtils.doOnExit(proc, action).                                    *)
(***************************************************************************)

\* Bound on the events emitted on proc.
MaxEmits == 3

\* proc is an event emitter whose exit() returns (a stand-in, "mock"), or a
\* true process ("node"): its exit(code) emits 'exit' unless the process is
\* exiting already, and never returns.
ProcKinds == { "mock", "node" }

EmittedExitCodes == { 0, 2 }

LogAction(arg) == [fn |-> "action", arg |-> arg]

LogExit(code) == [fn |-> "exit", arg |-> CodeVal(code)]

\* exitListener: action(code); proc.exit(code);
ExitListener(code) == << LogAction(CodeVal(code)), LogExit(code) >>

\* signalListener: action(signal); proc.exit(1); the exit(1) of a true process
\* emits 'exit' with code 1 to the listeners it has.
SignalListener(signal, kind, listeners) ==
  << LogAction(SignalVal(signal)), LogExit(1) >>
    \o (IF kind = "node" /\ listeners.exit THEN ExitListener(1) ELSE << >>)

\* (variant) a cancel function that removes the 'exit' listener only
CancelledListeners_ExitOnly(listeners) == [listeners EXCEPT !.exit = FALSE]

\* proc.removeListener('exit', exitListener) and
\* signals.forEach(signal => proc.removeListener(signal, signalListener))
CancelledListeners(listeners) == [exit |-> FALSE, SIGINT |-> FALSE]

\* doOnExit(proc, action); hasProc and hasAction tell whether the arguments are truthy.
DoOnExit(hasProc, hasAction, kind) ==
  /\ doeCall.state = "none"
  /\ IF ~hasProc \/ ~hasAction
     THEN /\ doeCall' = [state |-> "threw", procKind |-> kind]
          /\ UNCHANGED procListeners
     ELSE /\ doeCall' = [state |-> "registered", procKind |-> kind]
          /\ procListeners' = [exit |-> TRUE, SIGINT |-> TRUE]
  /\ UNCHANGED << procExiting, procEmitted, procLog >>
  /\ UNCHANGED << spawnVars, expandVars, argsVars, finallyVars >>

\* The function doOnExit returned is called.
CancelDoOnExit ==
  /\ doeCall.state = "registered"
  /\ ~procExiting
  /\ doeCall' = [doeCall EXCEPT !.state = "cancelled"]
  /\ procListeners' = CancelledListeners(procListeners)
  /\ UNCHANGED << procExiting, procEmitted, procLog >>
  /\ UNCHANGED << spawnVars, expandVars, argsVars, finallyVars >>

\* 'exit' is emitted on proc with a code.
EmitExit(code) ==
  /\ doeCall.state \in { "registered", "cancelled" }
  /\ ~procExiting
  /\ Len(procEmitted) < MaxEmits
  /\ procEmitted' = Append(procEmitted, [name |-> "exit", arg |-> CodeVal(code)])
  /\ procLog' = procLog \o (IF procListeners.exit THEN ExitListener(code) ELSE << >>)
  /\ procExiting' = (doeCall.procKind = "node")
  /\ UNCHANGED << doeCall, procListeners >>
  /\ UNCHANGED << spawnVars, expandVars, argsVars, finallyVars >>

\* 'SIGINT' is emitted on proc.  A true process without a listener for the
\* signal is killed by it.
EmitSigint ==
  /\ doeCall.state \in { "registered", "cancelled" }
  /\ ~procExiting
  /\ Len(procEmitted) < MaxEmits
  /\ procEmitted' = Append(procEmitted, [name |-> "SIGINT", arg |-> SignalVal("SIGINT")])
  /\ procLog' = procLog \o (IF procListeners.SIGINT
                            THEN SignalListener("SIGINT", doeCall.procKind, procListeners)
                            ELSE << >>)
  /\ procExiting' = (doeCall.procKind = "node")
  /\ UNCHANGED << doeCall, procListeners >>
  /\ UNCHANGED << spawnVars, expandVars, argsVars, finallyVars >>

NextExit ==
  \/ \E hasProc \in BOOLEAN, hasAction \in BOOLEAN, kind \in ProcKinds :
        DoOnExit(hasProc, hasAction, kind)
  \/ CancelDoOnExit
  \/ \E code \in EmittedExitCodes : EmitExit(code)
  \/ EmitSigint

(***************************************************************************)
(* InternalUtils.finallyAsPromised(promise, callback).                     *)
(***************************************************************************)

FapCallbacks == [kind : { "return", "throw", "promise" }, value : FapValues]

\* (variant) .then(() => <what the callback produced>)
ThenOutcome_CallbackValue(original, cbPromise) == cbPromise

\* .then(() => val) and .then(() => Promise.reject(err)), once Promise.resolve(callback())
\* is resolved: the outcome of the promise passed in.
ThenOutcome(original, cbPromise) == original

\* finallyAsPromised(promise, callback): promise.then(onFulfilled, onRejected); the
\* promise passed in may be settled already.
FinallyAsPromised(original, callback) ==
  /\ ~fapCall.called
  /\ fapCall' = [called |-> TRUE, callback |-> callback, original |-> original]
  /\ fapPromise' = original
  /\ fapQueue' = IF original.state = "pending" THEN fapQueue ELSE Append(fapQueue, "callback")
  /\ UNCHANGED << fapCbPromise, fapReturned, fapCbCalls >>
  /\ UNCHANGED << spawnVars, expandVars, argsVars, exitVars >>

\* The promise passed in is resolved or rejected.
FapSettleOriginal(outcome) ==
  /\ fapCall.called
  /\ fapPromise.state = "pending"
  /\ fapPromise' = outcome
  /\ fapQueue' = Append(fapQueue, "callback")
  /\ UNCHANGED << fapCall, fapCbPromise, fapReturned, fapCbCalls >>
  /\ UNCHANGED << spawnVars, expandVars, argsVars, exitVars >>

\* val => Promise.resolve(callback())... / err => Promise.resolve(callback())...: the
\* callback is called.  What it returns is wrapped by Promise.resolve; a promise
\* it returns settles later (FapCallbackSettles).  When it throws, the promise
\* of then() is rejected with what it threw.
FapCallback ==
  /\ fapQueue # << >>
  /\ fapQueue[1] = "callback"
  /\ fapCbCalls' = fapCbCalls + 1
  /\ LET cb == fapCall.callback
     IN  CASE cb.kind = "return" ->
                /\ fapCbPromise' = Resolved(cb.value)
                /\ fapQueue' = Append(Drop(fapQueue, 1), "then")
                /\ UNCHANGED fapReturned
           [] cb.kind = "throw" ->
                /\ fapReturned' = Rejected(cb.value)
                /\ fapQueue' = Drop(fapQueue, 1)
                /\ UNCHANGED fapCbPromise
           [] cb.kind = "promise" ->
                /\ fapQueue' = Drop(fapQueue, 1)
                /\ UNCHANGED << fapCbPromise, fapReturned >>
  /\ UNCHANGED << fapCall, fapPromise >>
  /\ UNCHANGED << spawnVars, expandVars, argsVars, exitVars >>

\* The promise the callback returned is resolved or rejected.
FapCallbackSettles(outcome) ==
  /\ fapCbCalls = 1
  /\ fapCall.callback.kind = "promise"
  /\ fapCbPromise.state = "pending"
  /\ fapCbPromise' = outcome
  /\ fapQueue' = Append(fapQueue, "then")
  /\ UNCHANGED << fapCall, fapPromise, fapReturned, fapCbCalls >>
  /\ UNCHANGED << spawnVars, expandVars, argsVars, exitVars >>

\* The reaction of Promise.resolve(callback()).then(...): the returned promise settles.
FapThen ==
  /\ fapQueue # << >>
  /\ fapQueue[1] = "then"
  /\ fapReturned' = IF fapCbPromise.state = "resolved"
                    THEN ThenOutcome(fapPromise, fapCbPromise)
                    ELSE Rejected(fapCbPromise.value)
  /\ fapQueue' = Drop(fapQueue, 1)
  /\ UNCHANGED << fapCall, fapPromise, fapCbPromise, fapCbCalls >>
  /\ UNCHANGED << spawnVars, expandVars, argsVars, exitVars >>

FapOutcomes == { Resolved(v) : v \in FapValues } \cup { Rejected(v) : v \in FapValues }

NextFinally ==
  \/ \E original \in { Pending } \cup FapOutcomes, callback \in FapCallbacks :
        FinallyAsPromised(original, callback)
  \/ \E outcome \in FapOutcomes : FapSettleOriginal(outcome)
  \/ FapCallback
  \/ \E outcome \in FapOutcomes : FapCallbackSettles(outcome)
  \/ FapThen

(***************************************************************************)
(* spawnAsPromised with every kind of returnOutput: false, true, and the   *)
(* numbers 0, 1, 2 and Infinity.                                           *)
(***************************************************************************)

OutputReturnOutputs == { RoFalse, RoTrue, RoNum(0), RoNum(1), RoNum(2), RoNum(Infinity) }

OutputConfigs ==
  [debug : { FALSE }, dryrun : { FALSE }, returnOutput : OutputReturnOutputs,
   sapVersion : { 1 }, suppressTbj : { FALSE }]

\* Chunks with whitespace and line breaks at their ends.
OutputChunks == { << "x" >>, << "\n", "y", " " >>, << " ", "u", " ", "\n", " ", "v", " ", "\n" >> }

NextOutput ==
  \/ \E rawCmd \in RawCmds, cfg \in OutputConfigs : SpawnAsPromised(rawCmd, cfg, "linux")
  \/ \E i \in 1..Len(spawned), ev \in ExitEvents : ChildExit(i, ev)
  \/ \E chunk \in OutputChunks : StdoutData(chunk)
  \/ StdoutEnd
  \/ OnDone
  \/ SettleReturned
  \/ HostSigint
  \/ HostExit

(***************************************************************************)
(* spawnAsPromised under fair scheduling: a promise reaction that is       *)
(* waiting is run (the microtask queue is drained before the next event).  *)
(* The events of the child processes and of the host are not forced.       *)
(***************************************************************************)

LiveConfigs ==
  { c \in Configs : ~c.debug /\ ~c.dryrun /\ ~c.suppressTbj
                    /\ c.returnOutput \in { RoFalse, RoTrue } }

NextLive ==
  \/ \E rawCmd \in RawCmds, cfg \in LiveConfigs : SpawnAsPromised(rawCmd, cfg, "linux")
  \/ \E i \in 1..Len(spawned), ev \in ExitEvents : ChildExit(i, ev)
  \/ \E i \in 1..Len(spawned), err \in SpawnErrors : ChildError(i, err)
  \/ \E chunk \in Chunks : StdoutData(chunk)
  \/ StdoutEnd
  \/ OnDone
  \/ SettleReturned
  \/ HostExit

(***************************************************************************)
(* spawnAsPromised called again and again, each call after the promise of  *)
(* the call before has settled.  The state of the call before is left      *)
(* behind: events of its processes that arrive later find a settled        *)
(* promise and change nothing.                                             *)
(***************************************************************************)

\* Bound on the number of invocations.
MaxRuns == 2

RunsCmds == { << "a" >>, << "a", " ", "|", " ", "b" >> }

RunsConfigs ==
  { c \in Configs : ~c.debug /\ ~c.dryrun /\ c.sapVersion \in { 1, 3 }
                    /\ c.returnOutput \in { RoFalse, RoTrue } }

\* The first invocation.
SpawnFirst(rawCmd, cfg, platform) ==
  /\ calls.doOnExit < MaxRuns
  /\ SpawnAsPromised(rawCmd, cfg, platform)

\* A further invocation: spawnAsPromised as in SpawnAsPromised, with a new
\* promise, new `data` and new child processes; the host process, its
\* listeners and what was written to the terminal stay.
SpawnAgain(rawCmd, cfg, platform) ==
  /\ sapCall.called
  /\ retPromise.state # "pending"
  /\ microtasks = << >>
  /\ ~host.exited
  /\ calls.doOnExit < MaxRuns
  /\ sapCall' = [called |-> TRUE, rawCmd |-> rawCmd, config |-> cfg]
  /\ host' = [host EXCEPT !.exitListener = TRUE, !.sigintListener = TRUE]
  /\ rl' = IF cfg.suppressTbj /\ platform = "win32" THEN "open" ELSE rl
  /\ LET known == KnownSapVersion(cfg.sapVersion)
         specs == IF known THEN ParseRawCmd(rawCmd, cfg.sapVersion, cfg.dryrun) ELSE << >>
         n     == Len(specs)
         thrown == Rejected(ErrVal(UnknownSapVersion(cfg.sapVersion)))
     IN  /\ spawned' = [i \in 1..n |->
                          [executable |-> specs[i].executable, args |-> specs[i].args,
                           stdio |-> Stdio(i, n, cfg),
                           exited |-> FALSE, ev |-> NoExit,
                           errored |-> FALSE, err |-> ""]]
         /\ pipes' = { << << "stdout", i >>, << "stdin", i + 1 >> >> : i \in 1..(n - 1) }
                     \cup (IF known /\ Truthy(cfg.returnOutput)
                           THEN { << << "stdout", n >>, << "outputStream", 0 >> >> }
                           ELSE {})
                     \cup (IF known /\ Truthy(cfg.returnOutput) /\ ReturnOutputSubset(cfg)
                           THEN { << << "outputStream", 0 >>, << "process.stdout", 0 >> >> }
                           ELSE {})
         /\ promise' = IF known THEN Pending ELSE Settle(Pending, thrown)
         /\ microtasks' = IF known THEN << >> ELSE Reactions(Pending, thrown, << >>)
         /\ calls' = [calls EXCEPT !.doOnExit = @ + 1,
                                   !.suppressTbj = @ + (IF cfg.suppressTbj THEN 1 ELSE 0),
                                   !.spawn = @ + n,
                                   !.debugMessage = @ + (IF cfg.debug THEN n ELSE 0)]
  /\ retPromise' = Pending
  /\ data' = << >>
  /\ stdoutEnded' = FALSE
  /\ chunkCount' = 0
  /\ UNCHANGED termOut
  /\ UNCHANGED << expandVars, utilVars >>

NextRuns ==
  \/ \E rawCmd \in RunsCmds, cfg \in RunsConfigs, platform \in Platforms :
        SpawnFirst(rawCmd, cfg, platform)
  \/ \E rawCmd \in RunsCmds, cfg \in RunsConfigs, platform \in Platforms :
        SpawnAgain(rawCmd, cfg, platform)
  \/ \E i \in 1..Len(spawned), ev \in ExitEvents : ChildExit(i, ev)
  \/ \E i \in 1..Len(spawned), err \in SpawnErrors : ChildError(i, err)
  \/ OnDone
  \/ SettleReturned
  \/ RlCloseTimer
  \/ HostExit

vars == << spawnVars, expandVars, utilVars >>

SpecSpawn == Init /\ [][NextSpawn]_vars

SpecExpand == Init /\ [][NextExpand]_vars

SpecTemplate == Init /\ [][NextTemplate]_vars

SpecParse == Init /\ [][NextParse]_vars

SpecOutput == Init /\ [][NextOutput]_vars

SpecLive == Init /\ [][NextLive]_vars /\ WF_vars(OnDone) /\ WF_vars(SettleReturned)

SpecRuns == Init /\ [][NextRuns]_vars

SpecArgs == Init /\ [][NextArgs]_vars

SpecExit == Init /\ [][NextExit]_vars

SpecFinally == Init /\ [][NextFinally]_vars

(***************************************************************************)
(* Properties of spawnAsPromised.                                          *)
(***************************************************************************)

Settled(p) == p.state # "pending"

\* The value stage i failed with at its 'exit' event, as the claim words it.
ExitFailure(ev) == IF ev.hasCode THEN CodeVal(ev.code) ELSE SignalVal(ev.signal)

ExitFailed(proc) == proc.exited /\ ~(proc.ev.hasCode /\ proc.ev.code = 0)

\* The failure values of the stages that have failed so far.
StageFailures ==
  { ExitFailure(spawned[i].ev) : i \in { j \in 1..Len(spawned) : ExitFailed(spawned[j]) } }
    \cup { ErrVal(spawned[i].err) : i \in { j \in 1..Len(spawned) : spawned[j].errored } }

\* C2 as stated: whenever a stage has failed, the returned promise (once
\* settled) is rejected with that stage's code, signal or error, whatever the
\* order of the events.
C2_RejectsWithEveryFailure ==
  Settled(retPromise) => \A v \in StageFailures : retPromise = Rejected(v)

\* Stage i fails in this step.
FailsInStep(i) ==
  \/ ~spawned[i].exited /\ ExitFailed(spawned'[i])
  \/ ~spawned[i].errored /\ spawned'[i].errored

FailureInStep(i) ==
  IF spawned'[i].errored /\ ~spawned[i].errored
  THEN ErrVal(spawned'[i].err)
  ELSE ExitFailure(spawned'[i].ev)

\* C2: a stage's non-zero exit, signal or spawn error that arrives while the
\* promise is undecided rejects it with that code, signal name or error, and
\* the returned promise settles as the promise was decided (the first deciding
\* event wins).
C2_FirstFailureRejects ==
  /\ [][\A i \in 1..Len(spawned) :
          (promise.state = "pending" /\ Len(spawned') = Len(spawned) /\ FailsInStep(i))
            => promise' = Rejected(FailureInStep(i))]_vars
  /\ [](Settled(retPromise) => retPromise = promise)

\* The middle stage of three exits with code 2 and the caller sees 2.
C2_Witness ==
  /\ Len(spawned) = 3
  /\ spawned[2].exited /\ spawned[2].ev.hasCode /\ spawned[2].ev.code = 2
  /\ retPromise = Rejected(CodeVal(2))

LastExitedZero ==
  /\ Len(spawned) >= 1
  /\ spawned[Len(spawned)].exited
  /\ spawned[Len(spawned)].ev.hasCode
  /\ spawned[Len(spawned)].ev.code = 0

\* C3: neither the promise nor the returned promise is resolved before the last
\* stage has emitted exit with code 0.
C3_ResolvedOnlyAfterLastExit ==
  (promise.state = "resolved" \/ retPromise.state = "resolved") => LastExitedZero

\* All three stages of a pipeline have exited with code 0 and the call resolved.
C3_Witness ==
  /\ Len(spawned) = 3
  /\ \A i \in 1..3 : spawned[i].exited /\ spawned[i].ev.hasCode /\ spawned[i].ev.code = 0
  /\ retPromise.state = "resolved"

\* C4: the completion cleanup (unsuppressTbj, cancelCleanUp, cleanUp, i.e.
\* onDone) never runs twice, its three parts run together, and it has run once
\* when the promise is decided and its reactions have run.
C4_CleanupExactlyOnce ==
  /\ calls.onDone <= 1
  /\ calls.unsuppressTbj = calls.onDone
  /\ calls.cancelCleanUp = calls.onDone
  /\ calls.cleanUp - calls.action = calls.onDone
  /\ (Settled(promise) /\ microtasks = << >> /\ ~host.exited) => calls.onDone = 1
  /\ Settled(retPromise) => calls.onDone = 1

\* Two stages have failed, a third event arrived after the promise settled, and
\* the cleanup has run.
C4_Witness ==
  /\ Cardinality({ i \in 1..Len(spawned) : ExitFailed(spawned[i]) \/ spawned[i].errored }) >= 2
  /\ Settled(retPromise)
  /\ calls.onDone = 1

C6_ActionExactlyOnce ==
  (sapCall.called /\ calls.taskkill = 0 /\ (Settled(retPromise) \/ host.exited))
    => calls.cleanUp = 1

\* C7 as stated: with returnOutput true, the resolved value is the
\* concatenation of all chunks the last stage's stdout delivered.
C7_ResolvesWithAllChunks ==
  (sapCall.config.returnOutput = RoTrue /\ retPromise.state = "resolved" /\ stdoutEnded)
    => retPromise.value = StrVal(data)


(***************************************************************************)
(* Properties of run() and expandCmd().                                    *)
(***************************************************************************)

\* The infos that cmd.replace() pushed in this call.
PushedInfos == ReplaceAll(runCall.cmd, runCall.runtimeArgs).infos

\* Does the text hold a pattern that String.replace treats as special?
HasDollar(str) == \E k \in 1..Len(str) : str[k] = "$"

\* str with the placeholder of every info of a resolved entry replaced by the
\* text computed from that entry's one result, all at once.
RECURSIVE SubstituteResolved(_, _, _)
SubstituteResolved(str, entries, dryrun) ==
  IF str = << >> THEN << >>
  ELSE LET hits == { << k, i >> \in (1..Len(entries)) \X (1..Len(PlaceholderToks)) :
                       /\ i <= Len(entries[k].infoList)
                       /\ entries[k].state = "resolved"
                       /\ entries[k].infoList[i].placeholder = str[1] }
       IN  (IF hits = {} THEN << str[1] >>
            ELSE LET h == CHOOSE h \in hits : TRUE
                 IN  InfoRepl(entries[h[1]].infoList[h[2]], entries[h[1]].result, dryrun))
             \o SubstituteResolved(Drop(str, 1), entries, dryrun)

\* C1: within one expandCmd call no sub-command string (the fallback text
\* without its --gkcu-returnOutput suffix) is run twice, every pushed
\* placeholder belongs to the one run of its sub-command, and (for outputs
\* without a special replacement pattern) the expanded command is the
\* replaced template with each placeholder of a finished run substituted from
\* that run's single output.
C1_EachSubCmdRunOnce ==
  runCall.called =>
    /\ \A i, j \in 1..Len(runLog) : runLog[i].subCmd = runLog[j].subCmd => i = j
    /\ Len(subCommands) = Len(runLog)
    /\ \A n \in 1..Len(PushedInfos) :
         \E k \in 1..Len(runLog) :
            /\ runLog[k].subCmd = PushedInfos[n].subCmd
            /\ \E i \in 1..Len(subCommands[k].infoList) :
                  subCommands[k].infoList[i] = PushedInfos[n]
    /\ (\A k \in 1..Len(subCommands) : ~HasDollar(subCommands[k].result))
         => expandedCmd = SubstituteResolved(ReplaceAll(runCall.cmd, runCall.runtimeArgs).out,
                                             subCommands, runCall.config.dryrun)

\* One sub-command referenced by two placeholders with different line limits,
\* run once, with a two-line output substituted into both.
C1_Witness ==
  /\ runCall.called
  /\ Len(runLog) = 1
  /\ Len(PushedInfos) = 2
  /\ PushedInfos[1].returnOutput # PushedInfos[2].returnOutput
  /\ subCommands[1].state = "resolved"
  /\ \E k \in 1..Len(subCommands[1].result) : subCommands[1].result[k] = "\n"
  /\ expandPromise.state = "resolved"
  /\ ~runCall.config.dryrun

FailedSubCmds == { k \in 1..Len(subCommands) : subCommands[k].state = "rejected" }

\* C8 (as stated): whenever sub-command runs have failed, expandCmd is
\* rejected with the failure value of each of them, and the outer command has
\* not been spawned.
C8_RejectsWithEveryFailure ==
  /\ \A k \in FailedSubCmds : expandPromise = Rejected(subCommands[k].failure)
  /\ FailedSubCmds # {} => ~OuterSpawned

\* C8 (amended): the first sub-command run to fail rejects expandCmd and run()
\* with its failure value, a later failure or result does not change that, and
\* after a failure the outer command is never spawned.
C8_FirstFailureRejects ==
  /\ [][\A k \in 1..Len(subCommands) :
          (/\ runCall.called
           /\ FailedSubCmds = {}
           /\ k \in FailedSubCmds')
          => /\ expandPromise' = Rejected(subCommands'[k].failure)
             /\ runPromise' = Rejected(subCommands'[k].failure)]_vars
  /\ [][expandPromise.state = "rejected"
          => (expandPromise' = expandPromise /\ runPromise' = runPromise)]_vars
  /\ [](FailedSubCmds # {} => (expandPromise.state = "rejected" /\ ~OuterSpawned))

\* Two sub-commands have failed with different values; expandCmd holds the
\* first one's.
C8_Witness ==
  /\ \E k1, k2 \in FailedSubCmds :
        /\ subCommands[k1].failure # subCommands[k2].failure
        /\ expandPromise = Rejected(subCommands[k1].failure)
  /\ runPromise = expandPromise
  /\ ~OuterSpawned

\* expandedCmd after the runs complete in the given order.
RECURSIVE Replay(_, _, _)
Replay(str, order, n) ==
  IF n > Len(order) THEN str
  ELSE Replay(ReplaceInfos(str, subCommands[order[n]].infoList,
                           subCommands[order[n]].result, config.dryrun),
              order, n + 1)

\* C9: when expandCmd has resolved, every sub-command run has resolved, the
\* resolved string holds no placeholder any more, and it is the string that
\* the replacements give in every completion order of the sub-commands.
C9_AllReplacedAnyOrder ==
  expandPromise.state = "resolved" =>
    /\ AllResolved(subCommands)
    /\ \A k \in 1..Len(expandPromise.value.text) :
          expandPromise.value.text[k] \notin Placeholders
    /\ \A order \in Permutations(1..Len(subCommands)) :
          Replay(ReplaceAll(runCall.cmd, runCall.runtimeArgs).out, order, 1)
            = expandPromise.value.text

\* C10: the caller's config object holds what it held at the call, at any
\* time after it, and every sub-command is run with a config that differs from
\* it in returnOutput only, which is a capturing value (true or Infinity).
C10_ConfigUnchanged ==
  runCall.called =>
    /\ config = runCall.config
    /\ \A k \in 1..Len(runLog) :
          /\ runLog[k].config.returnOutput \in { RoTrue, RoNum(Infinity) }
          /\ [runLog[k].config EXCEPT !.returnOutput = runCall.config.returnOutput]
               = runCall.config

\* An expansion that ran a sub-command for a caller whose config does not
\* capture output, and has settled.
C10_Witness ==
  /\ runCall.called
  /\ runCall.config.returnOutput = RoFalse
  /\ Len(runLog) > 0
  /\ runLog[1].config.returnOutput # runCall.config.returnOutput
  /\ expandPromise.state # "pending"


(***************************************************************************)
(* Properties of the placeholder forms (SpecTemplate).                     *)
(***************************************************************************)

\* The run() call was made with the template built from these parts.
IsTemplate(pre, g1, esc, form, post) ==
  runCall.called /\ runCall.cmd = TemplateOf(pre, g1, esc, form, post)

\* What the documentation of expandCmd says a form denotes, given the arguments:
\* all of them, those from the n-th on, or the n-th, joined by single spaces.
DocArgsValue(form, args) ==
  CASE form.kind = "all"  -> Join(args, << " " >>)
    [] form.kind = "from" -> IF form.n >= 1 /\ form.n <= Len(args)
                             THEN Join(SubSeq(args, form.n, Len(args)), << " " >>)
                             ELSE << >>
    [] form.kind = "at"   -> IF form.n >= 1 /\ form.n <= Len(args) THEN args[form.n] ELSE << >>

\* The text around a value: the captured whitespace goes with a non-empty value.
WithValue(pre, g1, val, post) == pre \o (IF val = << >> THEN << >> ELSE g1 \o val) \o post

\* C11 (as stated): for every positive n, multi-digit n with a 0 included, the
\* forms $n* and ${n*} without a fallback expand to the arguments from the
\* n-th on, joined by single spaces.
C11_FromDigitsStar ==
  \A pre \in Pres, g1 \in LeadingWs, esc \in Escapes, form \in PlaceholderForms, post \in Posts :
    (/\ IsTemplate(pre, g1, esc, form, post)
     /\ form.kind = "from" /\ form.n >= 1
     /\ form.literal = << >> /\ form.command = << >>)
    => expandedCmd = WithValue(pre, g1, DocArgsValue(form, runCall.runtimeArgs), post)

\* C12: a form with index 0 never brings a runtime argument into the expanded
\* command (nor into a sub-command that is run for it), whatever the arguments.
C12_IndexZeroNeverBinds ==
  \A pre \in Pres, g1 \in LeadingWs, esc \in Escapes, form \in PlaceholderForms, post \in Posts :
    (IsTemplate(pre, g1, esc, form, post) /\ form.n = 0 /\ form.kind # "all")
    => \A a \in 1..Len(runCall.runtimeArgs) :
          runCall.runtimeArgs[a] # << >>
          => /\ IndexOf(expandedCmd, runCall.runtimeArgs[a]) = 0
             /\ \A r \in 1..Len(spawnLog) :
                   IndexOf(spawnLog[r].cmd, runCall.runtimeArgs[a]) = 0

\* ${0:V} with two arguments supplied: the fallback V is what is used.
C12_Witness ==
  /\ runCall.called
  /\ Len(runCall.runtimeArgs) = 2
  /\ runCall.cmd = << "x", " ", "$", "{", "0", ":", "V", "}", " ", "y" >>
  /\ expandedCmd = << "x", " ", "V", " ", "y" >>
  /\ expandPromise.state = "resolved"

BareReturnOutputFlag == Take(ReturnOutputFlag, Len(ReturnOutputFlag) - 1)

\* C13 (as stated): no sub-command string handed to run() ends with
\* ' --gkcu-returnOutput' or with ' --gkcu-returnOutput=<digits>'.
C13_SuffixStripped ==
  \A k \in 1..Len(runLog) :
     /\ ~EndsWith(runLog[k].subCmd, BareReturnOutputFlag)
     /\ ReturnOutputSuffixAt(runLog[k].subCmd) = 0

\* The last n lines of a text (none of them for n = 0).
LastLines(text, n) ==
  LET lines == SplitChar(text, "\n")
  IN  IF n >= Len(lines) THEN text
      ELSE Join(SubSeq(lines, Len(lines) - n + 1, Len(lines)), << "\n" >>)

\* str with the placeholder of every info of a resolved entry replaced by the
\* last lines that the info asks for (the whole result without a limit).
RECURSIVE SubstituteLastLines(_, _)
SubstituteLastLines(str, entries) ==
  IF str = << >> THEN << >>
  ELSE LET hits == { << k, i >> \in (1..Len(entries)) \X (1..Len(PlaceholderToks)) :
                       /\ i <= Len(entries[k].infoList)
                       /\ entries[k].state = "resolved"
                       /\ entries[k].infoList[i].placeholder = str[1] }
       IN  (IF hits = {} THEN << str[1] >>
            ELSE LET h    == CHOOSE h \in hits : TRUE
                     info == entries[h[1]].infoList[h[2]]
                     val  == IF info.returnOutput.num
                             THEN LastLines(entries[h[1]].result, info.returnOutput.n)
                             ELSE entries[h[1]].result
                 IN  IF val = << >> THEN << >> ELSE info.g1 \o val)
             \o SubstituteLastLines(Drop(str, 1), entries)

\* C14 (as stated): without dryrun and for outputs without a $ pattern, a
\* placeholder with the limit N (0 included) is replaced by the last N lines
\* of the trimmed output of its sub-command, one without a limit by all of it.
C14_LastNLines ==
  (/\ runCall.called
   /\ ~runCall.config.dryrun
   /\ \A k \in 1..Len(subCommands) : ~HasDollar(subCommands[k].result))
  => expandedCmd = SubstituteLastLines(ReplaceAll(runCall.cmd, runCall.runtimeArgs).out,
                                       subCommands)

\* C15 (as stated): without dryrun the cleaned output of a sub-command is put
\* in the place of its placeholders verbatim, whatever the output is.
C15_OutputVerbatim ==
  (runCall.called /\ ~runCall.config.dryrun)
  => expandedCmd = SubstituteResolved(ReplaceAll(runCall.cmd, runCall.runtimeArgs).out,
                                      subCommands, FALSE)

\* str without the placeholders of the infos of the resolved entries.
RECURSIVE RemoveResolved(_, _)
RemoveResolved(str, entries) ==
  IF str = << >> THEN << >>
  ELSE (IF \E k \in 1..Len(entries) : \E i \in 1..Len(entries[k].infoList) :
              entries[k].state = "resolved" /\ entries[k].infoList[i].placeholder = str[1]
        THEN << >> ELSE << str[1] >>)
         \o RemoveResolved(Drop(str, 1), entries)

\* C16 (as stated): with or without dryrun, when the cleaned outputs of the
\* sub-commands that have finished are empty, their placeholders are gone from
\* the expanded command together with the whitespace captured before them.
C16_EmptyOutputRemoved ==
  (/\ runCall.called
   /\ \A k \in 1..Len(subCommands) : subCommands[k].result = << >>)
  => expandedCmd = RemoveResolved(ReplaceAll(runCall.cmd, runCall.runtimeArgs).out,
                                  subCommands)

\* Is the whole text of the form one match of `re`?
Recognized(form) ==
  MatchAt(form.text, 1).ok /\ MatchAt(form.text, 1).last = Len(form.text)

\* C17: a recognized form without a command fallback is replaced by its value
\* (from the arguments, else the literal fallback) with the captured
\* whitespace character in front, or by nothing, whitespace included, when the
\* value is empty; the text before and after it stays as it is.
C17_LeadingWhitespace ==
  \A pre \in Pres, g1 \in LeadingWs, esc \in Escapes, form \in PlaceholderForms, post \in Posts :
    (/\ IsTemplate(pre, g1, esc, form, post)
     /\ Recognized(form)
     /\ form.command = << >>)
    => LET fromArgs == DocArgsValue(form, runCall.runtimeArgs)
           val      == IF fromArgs # << >> THEN fromArgs ELSE form.literal
       IN  /\ expandedCmd = WithValue(pre, g1, val, post)
           /\ expandPromise = Resolved(StrVal(expandedCmd))

\* 'x $1 y' without arguments gives 'x y', and 'x ${2:V W} y' gives 'x V W y'.
C17_Witness ==
  /\ runCall.called
  /\ runCall.runtimeArgs = << >>
  /\ \/ /\ runCall.cmd = << "x", " ", "$", "1", " ", "y" >>
        /\ expandedCmd = << "x", " ", "y" >>
     \/ /\ runCall.cmd = << "x", " ", "$", "{", "2", ":", "V", " ", "W", "}", " ", "y" >>
        /\ expandedCmd = << "x", " ", "V", " ", "W", " ", "y" >>

\* The indices at which cmd.replace(re, ...) finds its matches, scanning from i.
RECURSIVE MatchStarts(_, _)
MatchStarts(str, i) ==
  IF i > Len(str) THEN {}
  ELSE IF MatchAt(str, i).ok
  THEN { i } \cup MatchStarts(str, MatchAt(str, i).last + 1)
  ELSE MatchStarts(str, i + 1)

\* Is the match at index i one with the backslash; where is its $.
IsEscaped(str, i) == str[i + Len(MatchAt(str, i).g1)] = "\\"

DollarIndex(str, i) ==
  i + Len(MatchAt(str, i).g1) + (IF IsEscaped(str, i) THEN 1 ELSE 0)

InsertBackslash(str, d) == Take(str, d - 1) \o << "\\" >> \o Drop(str, d - 1)

IsPipeline(stages, sep) ==
  /\ sapCall.called
  /\ sapCall.config.sapVersion = 1
  /\ sapCall.rawCmd = Join(stages, sep)

\* C19: in sapVersion 1 a command of k + 1 stages joined by k whitespace-
\* delimited pipes is run as k + 1 processes, the i-th spawned for the i-th
\* stage, with the stdout of each piped into the stdin of the next (and into
\* no other stdin).
C19_StagesSpawnedAndPiped ==
  \A stages \in StageLists, sep \in Separators :
    IsPipeline(stages, sep) =>
      /\ Len(spawned) = Len(stages)
      /\ calls.spawn = Len(stages)
      /\ \A i \in 1..Len(stages) :
            LET spec == ParseSingleCmd(stages[i], sapCall.config.dryrun)
            IN  /\ spawned[i].executable = spec.executable
                /\ spawned[i].args = spec.args
      /\ \A i \in 1..(Len(stages) - 1) :
            /\ << << "stdout", i >>, << "stdin", i + 1 >> >> \in pipes
            /\ spawned[i].stdio[2] = "pipe"
            /\ spawned[i + 1].stdio[1] = "pipe"
      /\ \A pp \in pipes : pp[2][1] = "stdin" => pp[1] = << "stdout", pp[2][2] - 1 >>
      /\ spawned[1].stdio[1] = "inherit"

\* 'a  |<tab>a && b  |<tab>c': three processes, two pipes, all exited with 0.
C19_Witness ==
  /\ sapCall.called
  /\ ~sapCall.config.dryrun
  /\ Len(spawned) = 3
  /\ spawned[1].executable = << "a" >>
  /\ spawned[2].args = << << "&", "&" >>, << "b" >> >>
  /\ spawned[3].executable = << "c" >>
  /\ { pp \in pipes : pp[2][1] = "stdin" }
       = { << << "stdout", 1 >>, << "stdin", 2 >> >>, << << "stdout", 2 >>, << "stdin", 3 >> >> }
  /\ \A i \in 1..3 : spawned[i].exited
  /\ retPromise.state = "resolved"

\* The tokens of the i-th process: the executable and its arguments.
Tokens(i) ==
  IF spawned[i].executable = << >> /\ spawned[i].args = << >> THEN << >>
  ELSE << spawned[i].executable >> \o spawned[i].args

IsAndOr(token) == token \in { << "&", "&" >>, << "|", "|" >> }

\* C20 (as stated): with dryrun in sapVersion 1, echo is the first token of
\* every stage (the spawned executable) and the token right after every &&
\* and || token.
C20_EchoFirstAndAfterOperators ==
  (sapCall.called /\ sapCall.config.dryrun /\ sapCall.config.sapVersion = 1)
  => \A i \in 1..Len(spawned) :
        /\ spawned[i].executable = EchoTok
        /\ \A j \in 1..Len(Tokens(i)) :
              IsAndOr(Tokens(i)[j]) => (j < Len(Tokens(i)) /\ Tokens(i)[j + 1] = EchoTok)

\* Is echo at index j of the tokens, or at j + 1 behind a '(' token at j?
EchoAt(tokens, j) ==
  \/ j <= Len(tokens) /\ tokens[j] = EchoTok
  \/ j + 1 <= Len(tokens) /\ tokens[j] = << "(" >> /\ tokens[j + 1] = EchoTok

RECURSIVE WithoutEcho(_)
WithoutEcho(tokens) ==
  IF tokens = << >> THEN << >>
  ELSE (IF tokens[1] = EchoTok THEN << >> ELSE << tokens[1] >>) \o WithoutEcho(Drop(tokens, 1))

\* C20 (amended): with dryrun in sapVersion 1, echo is the first token of
\* every stage, or the second one behind a leading '(' token, and it follows
\* every && and || token, directly or behind a '(' token that follows it;
\* nothing else is changed in the tokens of the stage.
C20_EchoFirstOrBehindParen ==
  \A stages \in StageLists, sep \in Separators :
    (IsPipeline(stages, sep) /\ sapCall.config.dryrun) =>
      /\ Len(spawned) = Len(stages)
      /\ \A i \in 1..Len(spawned) :
            LET plain == ParseSingleCmd(stages[i], FALSE)
            IN  /\ EchoAt(Tokens(i), 1)
                /\ \A j \in 1..Len(Tokens(i)) :
                      IsAndOr(Tokens(i)[j]) => EchoAt(Tokens(i), j + 1)
                /\ WithoutEcho(Tokens(i))
                     = (IF plain.executable = << >> /\ plain.args = << >> THEN << >>
                        ELSE << plain.executable >> \o plain.args)

\* '( a || b ) && c' in dryrun: '(' is the executable, echo comes behind it
\* and after || and &&.
C20_Witness ==
  /\ sapCall.called
  /\ sapCall.config.dryrun
  /\ Len(spawned) = 1
  /\ spawned[1].executable = << "(" >>
  /\ spawned[1].args = << EchoTok, << >>, << "a" >>, << "|", "|" >>, EchoTok, << "b" >>,
                          << ")" >>, << "&", "&" >>, EchoTok, << "c" >> >>


(***************************************************************************)
(* Properties of spawnAsPromised: the resolved value, stdio, the cleanup.  *)
(***************************************************************************)

\* What the claim says the call resolves with, for the data accumulated so far.
ExpectedOutput(returnOutput, d) ==
  IF ~returnOutput.on THEN << >>
  ELSE IF ~returnOutput.num THEN d
  ELSE Trim(LastLines(Trim(d), returnOutput.n))

\* C21: the promise is resolved with the empty string when returnOutput is
\* falsy, with all the data accumulated from the last stage's stdout when it is
\* true, and with the (trimmed) last N lines of the trimmed data when it is a
\* number N; the returned promise resolves with the same value.
C21_ResolvesWithOutput ==
  /\ [][(promise.state = "pending" /\ promise'.state = "resolved")
          => promise'.value = StrVal(ExpectedOutput(sapCall.config.returnOutput, data))]_vars
  /\ [](retPromise.state = "resolved" => retPromise = promise)

\* returnOutput is 2, three lines were read, and the call resolved with the last two.
C21_Witness ==
  /\ sapCall.config.returnOutput = RoNum(2)
  /\ data = << " ", "u", " ", "\n", " ", "v", " ", "\n", "x" >>
  /\ retPromise = Resolved(StrVal(<< "v", " ", "\n", "x" >>))

\* C25: every stage is spawned with stdin inherited for the first stage and
\* piped for the later ones, stdout piped when the stage is not the last or
\* returnOutput is truthy and inherited otherwise, and stderr inherited.
C25_StdioOfEveryStage ==
  \A i \in 1..Len(spawned) :
    /\ spawned[i].stdio[1] = (IF i = 1 THEN "inherit" ELSE "pipe")
    /\ spawned[i].stdio[2] =
         (IF i < Len(spawned) \/ sapCall.config.returnOutput.on THEN "pipe" ELSE "inherit")
    /\ spawned[i].stdio[3] = "inherit"

\* Three stages with a numeric returnOutput: the last stage's stdout is piped too.
C25_Witness ==
  /\ Len(spawned) = 3
  /\ sapCall.config.returnOutput = RoNum(1)
  /\ spawned[1].stdio = << "inherit", "pipe", "inherit" >>
  /\ spawned[3].stdio = << "pipe", "pipe", "inherit" >>

\* What has been written to process.stdout, the piped data left out.
ControlWrites == SelectSeq(termOut, LAMBDA w : w # "data")

\* C27: every run of cleanUp writes the two reset sequences (reset style, show
\* cursor) when returnOutput is falsy or a number, and writes nothing when
\* returnOutput is true; nothing else writes them.
C27_ResetWrittenUnlessCaptured ==
  ControlWrites =
    Repeat(IF sapCall.config.returnOutput = RoTrue
           THEN << >>
           ELSE << "resetBold", "showCursor" >>,
           calls.cleanUp)

\* A numeric returnOutput: the data was shown on the terminal, and the cleanup
\* wrote the two sequences after it.
C27_Witness ==
  /\ sapCall.config.returnOutput = RoNum(1)
  /\ Settled(retPromise)
  /\ termOut = << "data", "resetBold", "showCursor" >>


(***************************************************************************)
(* Properties of preprocessArgs.                                           *)
(***************************************************************************)

StartsWithMeta(arg) == Len(arg) >= Len(MetaPrefix) /\ SubSeq(arg, 1, Len(MetaPrefix)) = MetaPrefix

\* A `--gkcu-` argument whose key starts with a lower-case letter.
IsMetaArg(arg) ==
  /\ StartsWithMeta(arg)
  /\ Len(arg) > Len(MetaPrefix)
  /\ arg[Len(MetaPrefix) + 1] \in LowerLetters

\* The <key> of `--gkcu-<key>` and of `--gkcu-<key>=<value>`.
KeyOf(arg) ==
  LET rest == SubSeq(arg, Len(MetaPrefix) + 1, Len(arg))
      eq   == { i \in 1..Len(rest) : rest[i] = "=" }
  IN  IF eq = {} THEN rest ELSE SubSeq(rest, 1, (CHOOSE i \in eq : \A j \in eq : i <= j) - 1)

HasValue(arg) == \E i \in 1..Len(arg) : arg[i] = "="

\* The <value> of `--gkcu-<key>=<value>`.
ValueOf(arg) == SubSeq(arg, Len(MetaPrefix) + Len(KeyOf(arg)) + 2, Len(arg))

IsDigits(str) == str # << >> /\ \A i \in 1..Len(str) : str[i] \in Digits

\* rawArgs[i] is the last argument that sets its key.
LastOfKey(rawArgs, i) ==
  \A j \in (i + 1)..Len(rawArgs) :
    ~(IsMetaArg(rawArgs[j]) /\ KeyOf(rawArgs[j]) = KeyOf(rawArgs[i]))

\* C22 as stated: for every argument `--gkcu-<key>=<digits>` (the last one of
\* its key), config[key] is the number the digits denote, 0 included.
C22_DigitsBecomeNumbers ==
  ppCall.called =>
    \A i \in 1..Len(ppCall.rawArgs) :
      LET arg == ppCall.rawArgs[i]
      IN  (IsMetaArg(arg) /\ HasValue(arg) /\ IsDigits(ValueOf(arg))
             /\ LastOfKey(ppCall.rawArgs, i))
            => /\ KeyOf(arg) \in DOMAIN ppResult.config
               /\ ppResult.config[KeyOf(arg)] = CfgNum(DigitsToNat(ValueOf(arg)))

Quoted(arg) ==
  IF \E i \in 1..Len(arg) : arg[i] \in WsChars THEN << "\"" >> \o arg \o << "\"" >> ELSE arg

QuotedAll(args) == [i \in 1..Len(args) |-> Quoted(args[i])]

EmitStep == Len(procEmitted') = Len(procEmitted) + 1

LastEmitted == procEmitted'[Len(procEmitted')]

\* The calls of action and proc.exit made in this step.
CallsInStep == SubSeq(procLog', Len(procLog) + 1, Len(procLog'))

\* C24: after the cancel function was called, an `exit` or `SIGINT` event calls
\* neither the action nor proc.exit; before, each such event calls the action
\* with what the event carries and proc.exit next (with the code of `exit`,
\* with 1 for SIGINT), and every further call of the action is followed by one
\* of proc.exit.
C24_CancelStopsActionAndExit ==
  [][EmitStep =>
       IF doeCall.state = "cancelled"
       THEN procLog' = procLog
       ELSE /\ Len(CallsInStep) >= 2
            /\ CallsInStep[1] = LogAction(LastEmitted.arg)
            /\ CallsInStep[2] = LogExit(IF LastEmitted.name = "exit"
                                        THEN LastEmitted.arg.code
                                        ELSE 1)
            /\ \A k \in 1..Len(CallsInStep) :
                 CallsInStep[k].fn = (IF k % 2 = 1 THEN "action" ELSE "exit")]_vars

\* One event before the cancellation, which called the action and proc.exit,
\* and two events after it, which called nothing.
C24_Witness ==
  /\ doeCall = [state |-> "cancelled", procKind |-> "mock"]
  /\ Len(procEmitted) = 3
  /\ procEmitted[2].name = "SIGINT"
  /\ procEmitted[3].name = "exit"
  /\ procLog = << LogAction(SignalVal("SIGINT")), LogExit(1) >>


(***************************************************************************)
(* Properties of finallyAsPromised.                                        *)
(***************************************************************************)

\* The callback has thrown, or the promise it returned is rejected.
CallbackFailed ==
  /\ fapCbCalls >= 1
  /\ \/ fapCall.callback.kind = "throw"
     \/ fapCall.callback.kind = "promise" /\ fapCbPromise.state = "rejected"

CallbackError ==
  IF fapCall.callback.kind = "throw" THEN fapCall.callback.value ELSE fapCbPromise.value

\* C26: the callback is never called twice, and is called only after the
\* original promise has settled; when the returned promise settles the
\* callback has been called (and the promise it returned has settled), and the
\* returned promise is rejected with the callback's error if the callback
\* threw or returned a promise that rejected, and is settled as the original
\* promise otherwise, whatever the callback returned.
C26_CallbackOnceThenOriginalOutcome ==
  /\ fapCbCalls <= 1
  /\ fapCbCalls >= 1 => Settled(fapPromise)
  /\ Settled(fapReturned) =>
       /\ fapCbCalls = 1
       /\ fapCall.callback.kind = "promise" => Settled(fapCbPromise)
       /\ IF CallbackFailed
          THEN fapReturned = Rejected(CallbackError)
          ELSE fapReturned = fapPromise

\* The original promise was rejected with 'foo', the callback returned a
\* promise that resolved to 'bar', and the returned promise rejected with 'foo'.
C26_Witness ==
  /\ fapPromise = Rejected(StrVal(<< "f", "o", "o" >>))
  /\ fapCall.callback.kind = "promise"
  /\ fapCbPromise = Resolved(StrVal(<< "b", "a", "r" >>))
  /\ fapReturned = Rejected(StrVal(<< "f", "o", "o" >>))


(***************************************************************************)
(* Termination of spawnAsPromised.                                         *)
(***************************************************************************)

\* spawnAsPromised was called and every process it spawned has emitted exit or error.
AllStagesDone ==
  /\ sapCall.called
  /\ \A i \in 1..Len(spawned) : spawned[i].exited \/ spawned[i].errored

\* C28: once every spawned process has emitted an exit or an error event, in
\* whatever order and for every number of stages, the returned promise
\* eventually settles.
C28_EventuallySettles == AllStagesDone ~> Settled(retPromise)

\* Three stages: the last one exited first, the first one failed to spawn, the
\* middle one exited with code 0, and the returned promise has settled.
C28_Witness ==
  /\ Len(spawned) = 3
  /\ spawned[1].errored /\ ~spawned[1].exited
  /\ spawned[2].exited /\ spawned[2].ev.hasCode /\ spawned[2].ev.code = 0
  /\ spawned[3].exited
  /\ retPromise = Resolved(StrVal(<< >>))


(***************************************************************************)
(* Properties of spawnAsPromised: the exit hook and unknown sapVersions.   *)
(***************************************************************************)

\* C29: when the invocations made so far have all settled, the host process
\* has no `exit` and no `SIGINT` listener of doOnExit left, and as many exit
\* hooks have been cancelled as were registered.
C29_NoListenerLeft ==
  (sapCall.called /\ Settled(retPromise)) =>
    /\ ~host.exitListener
    /\ ~host.sigintListener
    /\ calls.cancelCleanUp = calls.doOnExit

\* Two invocations have settled, the second one by a rejection, and no
\* listener is left.
C29_Witness ==
  /\ calls.doOnExit = 2
  /\ retPromise.state = "rejected"
  /\ calls.cancelCleanUp = 2
  /\ ~host.exitListener /\ ~host.sigintListener

UnknownSapVersionError ==
  ErrVal(IF sapCall.config.sapVersion = 0 THEN "Unknown 'sapVersion' (0)."
         ELSE IF sapCall.config.sapVersion = 3 THEN "Unknown 'sapVersion' (3)."
         ELSE "")

\* C30: with a sapVersion other than 1 and 2 no process is spawned, the
\* promise is rejected with the error "Unknown 'sapVersion' (<value>)." at
\* once, the cleanup never runs twice, and when the returned promise rejects
\* with that error the cleanup has run once: the exit hook is cancelled, its
\* listeners are removed and cleanUp has been called.
C30_UnknownSapVersionRejects ==
  (sapCall.called /\ sapCall.config.sapVersion \notin { 1, 2 }) =>
    /\ spawned = << >>
    /\ calls.spawn = 0
    /\ promise = Rejected(UnknownSapVersionError)
    /\ calls.onDone <= 1
    /\ calls.cleanUp <= 1
    /\ retPromise \in { Pending, Rejected(UnknownSapVersionError) }
    /\ Settled(retPromise) =>
         /\ calls.onDone = 1
         /\ calls.unsuppressTbj = 1
         /\ calls.cancelCleanUp = 1
         /\ calls.cleanUp = 1
         /\ ~host.exitListener /\ ~host.sigintListener
    /\ (~Settled(retPromise) /\ ~host.exited) => microtasks # << >>

\* sapVersion 3: rejected after the cleanup, and the host received SIGINT
\* afterwards without the action being run.
C30_Witness ==
  /\ sapCall.config.sapVersion = 3
  /\ retPromise = Rejected(ErrVal("Unknown 'sapVersion' (3)."))
  /\ calls.cleanUp = 1
  /\ calls.action = 0
  /\ host.exited

=============================================================================
